---- MODULE Spec2Model ----
(***************************************************************************)
(* A model of simple-mongoose-interface: the REST protocol adapter         *)
(* (RESTInterfaceHandler), the dispatcher it drives                        *)
(* (SimpleModelInterface.execute) and the document store behind it.        *)
(*                                                                         *)
(* JavaScript values are represented as follows.                           *)
(*   - an object is a function whose domain is the set of its own keys; a  *)
(*     key that is `undefined` is a key outside the domain;                *)
(*   - `null` is the object Null;                                          *)
(*   - an optional argument or value is a sequence of length 0 or 1;       *)
(*   - a URL, and any text that the code cuts or joins, is a sequence of   *)
(*     tokens ("/", "?", "#", an identifier, a "key=value" pair);          *)
(*   - a point in time is a positive integer (milliseconds).               *)
(***************************************************************************)
EXTENDS Integers, Sequences, FiniteSets, TLC

\* The store's clock stops here: a run performs at most MaxTime - 1 writes.
MaxTime == 2

-----------------------------------------------------------------------------
(* JavaScript objects *)

EmptyObj == [k \in {} |-> TRUE]

Null == [null |-> TRUE]

Has(o, k) == k \in DOMAIN o

SetKey(o, k, v) == [x \in (DOMAIN o) \cup {k} |-> IF x = k THEN v ELSE o[x]]

\* {...a, ...b}
Spread(a, b) == [x \in (DOMAIN a) \cup (DOMAIN b) |-> IF x \in DOMAIN b THEN b[x] ELSE a[x]]

\* lodash _.get(o, path) as an optional value
RECURSIVE Get(_, _)
Get(o, path) ==
  IF path = <<>> THEN <<o>>
  ELSE IF Has(o, path[1]) THEN Get(o[path[1]], Tail(path)) ELSE <<>>

\* lodash _.set(o, path, v), the path already cut at its dots
RECURSIVE LodashSet(_, _, _)
LodashSet(o, path, v) ==
  IF Len(path) = 1
    THEN SetKey(o, path[1], v)
    ELSE SetKey(o, path[1],
                LodashSet(IF Has(o, path[1]) THEN o[path[1]] ELSE EmptyObj, Tail(path), v))

\* Array.from(new Set(xs)): first occurrences, in order
RECURSIVE Uniq(_)
Uniq(xs) ==
  IF xs = <<>> THEN <<>>
  ELSE LET front == Uniq(SubSeq(xs, 1, Len(xs) - 1))
           last == xs[Len(xs)]
       IN IF \E i \in 1..Len(front) : front[i] = last THEN front ELSE Append(front, last)

Elems(xs) == {xs[i] : i \in 1..Len(xs)}

\* Array.prototype.includes
Includes(xs, x) == \E i \in 1..Len(xs) : xs[i] = x

\* String.prototype.split(sep).shift(): the text before the first sep
RECURSIVE SplitShift(_, _)
SplitShift(s, sep) ==
  IF s = <<>> \/ s[1] = sep THEN <<>> ELSE <<s[1]>> \o SplitShift(Tail(s), sep)

\* String.prototype.substr(1)
Substr1(s) == IF s = <<>> THEN <<>> ELSE Tail(s)

\* the text of a token sequence
RECURSIVE Text(_)
Text(s) == IF s = <<>> THEN "" ELSE s[1] \o Text(Tail(s))

-----------------------------------------------------------------------------
(* Operation model *)

ModelInterfaceRequestMethods ==
  {"find", "findOne", "findById", "count", "create", "update", "patch", "delete"}

HTTPMethods == {"GET", "HEAD", "POST", "PUT", "PATCH", "DELETE"}

OperationToHTTPMethod ==
  [create |-> "POST", update |-> "PUT", delete |-> "DELETE", find |-> "GET",
   findById |-> "GET", count |-> "HEAD", findOne |-> "GET", patch |-> "PATCH"]

\* the entries of OperationToHTTPMethod in insertion order
OperationOrder ==
  <<"create", "update", "delete", "find", "findById", "count", "findOne", "patch">>

\* new Map(entries.map(([k, v]) => [v, k])).get(verb): the last operation
\* entered for the verb; undefined for a verb that no operation maps to
HTTPMethodToOperation(verb) ==
  LET hits == {i \in 1..Len(OperationOrder) : OperationToHTTPMethod[OperationOrder[i]] = verb}
  IN IF hits = {} THEN <<>>
     ELSE <<OperationOrder[CHOOSE i \in hits : \A j \in hits : j <= i]>>

InvalidHTTPMethodError(method) ==
  [message |-> <<"Invalid HTTP method", method>>, isModelInterfaceError |-> TRUE]

\* a faulty variant: the Allow header repeats a verb per allowed operation
HTTPMethodNotAllowedErrorMutant(method, allowedMethods) ==
  [message |-> <<"HTTP method", OperationToHTTPMethod[method], "now allowed">>,
   headers |-> [Allow |-> [array |-> FALSE,
                           items |-> <<[i \in 1..Len(allowedMethods) |->
                                         OperationToHTTPMethod[allowedMethods[i]]]>>]],
   httpCode |-> 405,
   isModelInterfaceError |-> TRUE]

HTTPMethodNotAllowedError(method, allowedMethods) ==
  [message |-> <<"HTTP method", OperationToHTTPMethod[method], "now allowed">>,
   headers |-> [Allow |-> [array |-> FALSE,
                           items |-> <<Uniq([i \in 1..Len(allowedMethods) |->
                                              OperationToHTTPMethod[allowedMethods[i]]])>>]],
   httpCode |-> 405,
   isModelInterfaceError |-> TRUE]

-----------------------------------------------------------------------------
(* HTTP request side of the REST adapter *)

urlBase == "http://127.0.0.1"

\* the key of a query-string pair with its dots written out
RECURSIVE DottedKey(_)
DottedKey(key) ==
  IF Len(key) = 1 THEN key[1] ELSE key[1] \o "." \o DottedKey(Tail(key))

\* URL.href of a URL with this pathname and this search, under the base
Href(path, search) ==
  <<urlBase>> \o path \o
  (IF search = <<>> THEN <<>>
   ELSE <<"?">> \o [i \in 1..Len(search) |->
                      DottedKey(search[i].key) \o "=" \o search[i].raw])

\* new URL(req.url, this.urlBase).href
parseUrl(req) == Href(req.url.path, req.url.search)

\* String.prototype.replace(token, ''): the first occurrence is removed
RECURSIVE Replace(_, _)
Replace(s, token) ==
  IF s = <<>> THEN <<>>
  ELSE IF s[1] = token THEN Tail(s) ELSE <<s[1]>> \o Replace(Tail(s), token)

\* query-string's parseNumbers and parseBooleans (DEFAULT_PARSE_OPTIONS)
ParseValue(raw) ==
  CASE raw = "1" -> 1
    [] raw = "2" -> 2
    [] raw = "-1" -> -1
    [] raw = "true" -> TRUE
    [] raw = "false" -> FALSE
    [] OTHER -> raw

\* a faulty variant: a key the body already has under query is left as it is
RECURSIVE OverrideWithQueryStringMutant(_, _)
OverrideWithQueryStringMutant(body, search) ==
  IF search = <<>> THEN body
  ELSE OverrideWithQueryStringMutant(
         IF Get(body, <<"query">> \o search[1].key) # <<>> THEN body
         ELSE LodashSet(body, <<"query">> \o search[1].key, ParseValue(search[1].raw)),
         Tail(search))

\* for (const key in q) _.set(body, `query.${key}`, q[key])
RECURSIVE OverrideWithQueryString(_, _)
OverrideWithQueryString(body, search) ==
  IF search = <<>> THEN body
  ELSE OverrideWithQueryString(
         LodashSet(body, <<"query">> \o search[1].key, ParseValue(search[1].raw)),
         Tail(search))

\* opts?.key, for an optional options object
OptHas(opts, k) == Len(opts) = 1 /\ Has(opts[1], k)

\* a faulty variant: GET with an identifier resolves to findById
MethodOfVerbMutant(verb, hasPathname) ==
  CASE verb = "POST" -> "create"
    [] verb = "PUT" -> "update"
    [] verb = "PATCH" -> "patch"
    [] verb = "DELETE" -> "delete"
    [] verb = "HEAD" -> "count"
    [] OTHER -> IF hasPathname THEN "findById" ELSE "find"

\* The operation the verb resolves to (lines 218-234): every verb that is not
\* POST, PUT, PATCH, DELETE or HEAD falls through to the GET branch.
MethodOfVerb(verb, hasPathname) ==
  CASE verb = "POST" -> "create"
    [] verb = "PUT" -> "update"
    [] verb = "PATCH" -> "patch"
    [] verb = "DELETE" -> "delete"
    [] verb = "HEAD" -> "count"
    [] OTHER -> IF hasPathname THEN "findOne" ELSE "find"

\* `!method`: an operation name is a non-empty string, hence truthy
Falsy(method) == method = ""

TargetId(req) ==
  LET pathname == Replace(parseUrl(req), urlBase)
  IN SplitShift(SplitShift(Substr1(pathname), "?"), "#")

\* lines 208-213: the body buffer, if any; a zero-length buffer is none
ReadsStream(req, opts) ==
  req.body = <<>> /\ ~(OptHas(opts, "skipParseBody") /\ opts[1].skipParseBody)

\* a faulty variant: the request stream is never read
BodyBufferMutant(req, opts) ==
  IF req.body # <<>> /\ req.body[1].length # 0 THEN req.body ELSE <<>>

BodyBuffer(req, opts) ==
  IF req.body # <<>> THEN (IF req.body[1].length = 0 THEN <<>> ELSE req.body)
  ELSE IF ReadsStream(req, opts) /\ req.stream.buf.length # 0 THEN <<req.stream.buf>>
  ELSE <<>>

\* a faulty variant: the identifier is set at query._id and HEAD gets no projection
PathBodyMutant(targetId, method) ==
  IF targetId = <<>> THEN EmptyObj
  ELSE LodashSet(EmptyObj, <<"query", "_id">>, Text(targetId))

\* lines 244-253: the body that the path sets
PathBody(targetId, method) ==
  IF targetId = <<>> THEN EmptyObj
  ELSE IF method = "count"
    THEN LodashSet(LodashSet(EmptyObj, <<"query", "query", "_id">>, Text(targetId)),
                   <<"query", "project">>, [_id |-> 1, updatedAt |-> 1])
  ELSE LodashSet(EmptyObj, <<"query", "query", "_id">>, Text(targetId))

\* lines 249-250: a path-scoped count becomes findOne
Rewritten(targetId, method) ==
  IF targetId # <<>> /\ method = "count" THEN "findOne" ELSE method

\* a faulty variant: the deserialized body is spread over the path's fields
MergeBodyMutant(buf, body) == IF buf # <<>> THEN Spread(body, buf[1].obj) ELSE body

\* lines 255-259: { ...deserialized, ...body }
MergeBody(buf, body) == IF buf # <<>> THEN Spread(buf[1].obj, body) ELSE body

\* lines 236-275, once the body is buffered and the operation resolved
BuildRequest(req, opts, buf, targetId, method) ==
  IF Falsy(method)
    THEN [threw |-> TRUE, error |-> InvalidHTTPMethodError(req.method)]
  ELSE IF OptHas(opts, "allowedMethods") /\ ~Includes(opts[1].allowedMethods, method)
    THEN [threw |-> TRUE, error |-> HTTPMethodNotAllowedError(method, opts[1].allowedMethods)]
  ELSE IF buf # <<>> /\ ~buf[1].decodes
    THEN [threw |-> TRUE, error |-> [message |-> <<"deserialize">>]]
  ELSE [threw |-> FALSE,
        value |-> [method |-> Rewritten(targetId, method),
                   body |-> OverrideWithQueryString(
                              MergeBody(buf, PathBody(targetId, method)), req.url.search)]]

\* RESTInterfaceHandler.interfaceRequestFromHttpRequest(req, opts), with opts
\* already defaulted: [threw, error] or [threw, value]
interfaceRequestFromHttpRequest(req, opts) ==
  IF ReadsStream(req, opts) /\ req.stream.fails
    THEN [threw |-> TRUE, error |-> [message |-> <<"request aborted">>]]
    ELSE BuildRequest(req, opts, BodyBuffer(req, opts), TargetId(req),
                      MethodOfVerb(req.method, TargetId(req) # <<>>))

-----------------------------------------------------------------------------
(* Data Interface (ModelInterface) over the document store.  The collection *)
(* is the sequence of its documents in insertion order.                     *)

IdOf(n) == "id" \o ToString(n)

\* the filter of an optional Query; no Query, or no filter, matches everything
FilterOf(q) == IF q # <<>> /\ Has(q[1], "query") THEN q[1].query ELSE EmptyObj

Matches(doc, filter) == \A k \in DOMAIN filter : Has(doc, k) /\ doc[k] = filter[k]

RECURSIVE Select(_, _)
Select(docs, filter) ==
  IF docs = <<>> THEN <<>>
  ELSE (IF Matches(docs[1], filter) THEN <<docs[1]>> ELSE <<>>) \o Select(Tail(docs), filter)

\* q.project: the fields kept in a result
Project(doc, q) ==
  IF q # <<>> /\ Has(q[1], "project")
    THEN [k \in (DOMAIN doc) \cap (DOMAIN q[1].project) |-> doc[k]]
    ELSE doc

\* the position of a generated or client-chosen identifier in identifier order
IdRank(id) == CHOOSE n \in 1..(2 * MaxTime + 2) : IdOf(n) = id

\* the value a document is sorted on under the field k; a missing field sorts first
SortKey(doc, k) ==
  IF ~Has(doc, k) THEN 0
  ELSE IF k = "_id" THEN IdRank(doc[k])
  ELSE IF k = "updatedAt" THEN doc[k]
  ELSE IF doc[k] = "v1" THEN 1 ELSE 2

\* a sorts strictly before b under the sort document (of one field)
Before(a, b, sort) ==
  LET k == CHOOSE x \in DOMAIN sort : TRUE
  IN IF sort[k] = 1 THEN SortKey(a, k) < SortKey(b, k) ELSE SortKey(a, k) > SortKey(b, k)

\* d put into a sorted sequence, after the documents it does not sort before
RECURSIVE Insert(_, _, _)
Insert(sorted, d, sort) ==
  IF sorted = <<>> THEN <<d>>
  ELSE IF Before(d, sorted[Len(sorted)], sort)
    THEN Append(Insert(SubSeq(sorted, 1, Len(sorted) - 1), d, sort), sorted[Len(sorted)])
  ELSE Append(sorted, d)

RECURSIVE SortDocs(_, _)
SortDocs(found, sort) ==
  IF found = <<>> THEN <<>>
  ELSE Insert(SortDocs(SubSeq(found, 1, Len(found) - 1), sort), found[Len(found)], sort)

\* q.sort applied to the matching documents; without it they stay in store order
Sorted(found, q) ==
  IF q # <<>> /\ Has(q[1], "sort") /\ DOMAIN q[1].sort # {} THEN SortDocs(found, q[1].sort)
  ELSE found

\* a faulty variant: the limit is applied before the skip
PageMutant(found, q) ==
  LET cut == IF q # <<>> /\ Has(q[1], "limit") /\ q[1].limit < Len(found)
               THEN SubSeq(found, 1, q[1].limit) ELSE found
      skip == IF q # <<>> /\ Has(q[1], "skip") THEN q[1].skip ELSE 0
  IN SubSeq(cut, skip + 1, Len(cut))

\* q.skip and q.limit, applied to the matching documents in their order
Page(found, q) ==
  LET skip == IF q # <<>> /\ Has(q[1], "skip") THEN q[1].skip ELSE 0
      rest == SubSeq(found, skip + 1, Len(found))
  IN IF q # <<>> /\ Has(q[1], "limit") /\ q[1].limit < Len(rest)
       THEN SubSeq(rest, 1, q[1].limit)
       ELSE rest

find(docs, q) ==
  LET found == Page(Sorted(Select(docs, FilterOf(q)), q), q)
  IN [i \in 1..Len(found) |-> Project(found[i], q)]

findOne(docs, q) == IF find(docs, q) = <<>> THEN Null ELSE find(docs, q)[1]

findById(docs, id) ==
  IF id = <<>> \/ Select(docs, [_id |-> id[1]]) = <<>> THEN Null
  ELSE Select(docs, [_id |-> id[1]])[1]

count(docs, q) == Len(Select(docs, FilterOf(q)))

\* the number of the next generated identifier: one no stored document has
RECURSIVE FreshId(_, _)
FreshId(docs, n) ==
  IF \E i \in 1..Len(docs) : docs[i]._id = IdOf(n) THEN FreshId(docs, n + 1) ELSE n

\* create(fields): the document created, with a generated identifier
create(fields, nextId, now) ==
  SetKey(Spread([_id |-> IdOf(nextId)], IF fields = <<>> THEN EmptyObj ELSE fields[1]),
         "updatedAt", now)

\* a faulty variant: an upsert seeds the new document with the fields only
updateUnseededMutant(docs, q, fields, upsert, nextId, now) ==
  LET delta == IF fields = <<>> THEN EmptyObj ELSE fields[1]
      filter == FilterOf(q)
  IN IF upsert /\ Select(docs, filter) = <<>>
       THEN Append(docs, create(<<delta>>, nextId, now))
       ELSE [i \in 1..Len(docs) |->
               IF Matches(docs[i], filter)
                 THEN SetKey(Spread(docs[i], delta), "updatedAt", now)
                 ELSE docs[i]]

\* a faulty variant: only the first matching document is updated
updateMutant(docs, q, fields, upsert, nextId, now) ==
  LET delta == IF fields = <<>> THEN EmptyObj ELSE fields[1]
      filter == FilterOf(q)
  IN IF upsert /\ Select(docs, filter) = <<>>
       THEN Append(docs, create(<<Spread(filter, delta)>>, nextId, now))
       ELSE [i \in 1..Len(docs) |->
               IF Matches(docs[i], filter) /\ \A j \in 1..(i - 1) : ~Matches(docs[j], filter)
                 THEN SetKey(Spread(docs[i], delta), "updatedAt", now)
                 ELSE docs[i]]

\* update(q, fields, upsert): the collection afterwards
update(docs, q, fields, upsert, nextId, now) ==
  LET delta == IF fields = <<>> THEN EmptyObj ELSE fields[1]
      filter == FilterOf(q)
  IN IF upsert /\ Select(docs, filter) = <<>>
       THEN Append(docs, create(<<Spread(filter, delta)>>, nextId, now))
       ELSE [i \in 1..Len(docs) |->
               IF Matches(docs[i], filter)
                 THEN SetKey(Spread(docs[i], delta), "updatedAt", now)
                 ELSE docs[i]]

\* one JSON-Patch operation on a document: [failed, doc]
ApplyPatchOp(doc, p) ==
  CASE p.op = "add" -> [failed |-> FALSE, doc |-> SetKey(doc, p.path, p.value)]
    [] p.op = "replace" ->
         IF Has(doc, p.path) THEN [failed |-> FALSE, doc |-> SetKey(doc, p.path, p.value)]
         ELSE [failed |-> TRUE, doc |-> doc]
    [] p.op = "remove" ->
         IF Has(doc, p.path)
           THEN [failed |-> FALSE, doc |-> [k \in (DOMAIN doc) \ {p.path} |-> doc[k]]]
           ELSE [failed |-> TRUE, doc |-> doc]
    [] OTHER -> [failed |-> TRUE, doc |-> doc]

\* the patch sequence applied in order; the first failure stops it
RECURSIVE ApplyPatches(_, _)
ApplyPatches(doc, patches) ==
  IF patches = <<>> THEN [failed |-> FALSE, doc |-> doc]
  ELSE LET r == ApplyPatchOp(doc, patches[1])
       IN IF r.failed THEN [failed |-> TRUE, doc |-> doc] ELSE ApplyPatches(r.doc, Tail(patches))

\* a faulty variant: a failure undoes the documents patched before it
RECURSIVE patchMutant(_, _, _, _)
patchMutant(docs, filter, patches, now) ==
  IF docs = <<>> THEN [failed |-> FALSE, docs |-> <<>>]
  ELSE IF ~Matches(docs[1], filter)
    THEN LET r == patchMutant(Tail(docs), filter, patches, now)
         IN [failed |-> r.failed, docs |-> <<docs[1]>> \o r.docs]
  ELSE LET a == ApplyPatches(docs[1], patches)
       IN IF a.failed THEN [failed |-> TRUE, docs |-> docs]
          ELSE LET r == patchMutant(Tail(docs), filter, patches, now)
               IN IF r.failed THEN [failed |-> TRUE, docs |-> docs]
                  ELSE [failed |-> FALSE,
                        docs |-> <<SetKey(a.doc, "updatedAt", now)>> \o r.docs]

\* patch(q, patches): documents are patched and saved one after the other; a
\* failure stops the call and leaves the documents saved before it patched
RECURSIVE patch(_, _, _, _)
patch(docs, filter, patches, now) ==
  IF docs = <<>> THEN [failed |-> FALSE, docs |-> <<>>]
  ELSE IF ~Matches(docs[1], filter)
    THEN LET r == patch(Tail(docs), filter, patches, now)
         IN [failed |-> r.failed, docs |-> <<docs[1]>> \o r.docs]
  ELSE LET a == ApplyPatches(docs[1], patches)
       IN IF a.failed THEN [failed |-> TRUE, docs |-> docs]
          ELSE LET r == patch(Tail(docs), filter, patches, now)
               IN [failed |-> r.failed,
                   docs |-> <<SetKey(a.doc, "updatedAt", now)>> \o r.docs]

\* the documents that stay when those matching the filter are removed
RECURSIVE Reject(_, _)
Reject(docs, filter) ==
  IF docs = <<>> THEN <<>>
  ELSE (IF Matches(docs[1], filter) THEN <<>> ELSE <<docs[1]>>) \o Reject(Tail(docs), filter)

delete(docs, q) == Reject(docs, FilterOf(q))

\* a faulty variant: a plain error is wrapped, and the result wrapped again
wrapErrorTwiceMutant(err) ==
  IF Has(err, "isModelInterfaceError") THEN err
  ELSE [message |-> err.message,
        innerError |-> [message |-> err.message, innerError |-> err,
                        isModelInterfaceError |-> TRUE],
        isModelInterfaceError |-> TRUE]

\* a faulty variant: an already wrapped error is wrapped again
wrapErrorMutant(err) ==
  [message |-> err.message, innerError |-> err, isModelInterfaceError |-> TRUE]

\* wrapError(err): an error that carries the sentinel is returned unchanged
wrapError(err) ==
  IF Has(err, "isModelInterfaceError") THEN err
  ELSE [message |-> err.message, innerError |-> err, isModelInterfaceError |-> TRUE]

PatchError == [message |-> <<"patch failed">>]

-----------------------------------------------------------------------------
(* Simple Interface / Dispatcher *)

\* a faulty variant: the query of the request is not passed on
FieldMutant(body, k) ==
  IF k # "query" /\ Has(body, k) THEN <<body[k]>> ELSE <<>>

\* body.key as an optional value
Field(body, k) == IF Has(body, k) THEN <<body[k]>> ELSE <<>>

\* SimpleModelInterface.execute(request) against the store st = [docs, clock,
\* nextId]; fault is the error the store raises for this call, if any.
\* The result is [st, resp]: it always returns, never raises.
SimpleExecute(st, request, fault) ==
  LET m == request.method
      body == request.body
      q == Field(body, "query")
      now == st.clock + 1
      error(e) == [st |-> st, resp |-> [method |-> m, body |-> [error |-> wrapError(e)]]]
      read(b) == [st |-> st, resp |-> [method |-> m, body |-> b]]
      wrote(docs) == [st |-> [docs |-> docs, clock |-> now, nextId |-> st.nextId],
                      resp |-> [method |-> m]]
  IN IF fault # <<>> THEN error(fault[1])
     ELSE CASE m = "find" -> read([results |-> find(st.docs, q)])
            [] m = "findOne" -> read([result |-> findOne(st.docs, q)])
            [] m = "findById" -> read([result |-> findById(st.docs, Field(body, "id"))])
            [] m = "count" -> read([count |-> count(st.docs, q)])
            [] m = "create" ->
                 LET doc == create(Field(body, "fields"), FreshId(st.docs, st.nextId), now)
                 IN [st |-> [docs |-> Append(st.docs, doc), clock |-> now,
                             nextId |-> FreshId(st.docs, st.nextId) + 1],
                     resp |-> [method |-> m, body |-> [id |-> doc._id]]]
            [] m = "update" ->
                 LET upsert == Has(body, "upsert") /\ body.upsert
                     after == update(st.docs, q, Field(body, "fields"), upsert,
                                     FreshId(st.docs, st.nextId), now)
                 IN [st |-> [docs |-> after, clock |-> now,
                             nextId |-> IF Len(after) > Len(st.docs)
                                          THEN FreshId(st.docs, st.nextId) + 1
                                        ELSE st.nextId],
                     resp |-> [method |-> m]]
            [] m = "patch" ->
                 LET r == patch(st.docs, FilterOf(q),
                                IF Has(body, "patches") THEN body.patches ELSE <<>>, now)
                 IN IF r.failed
                      THEN [st |-> [docs |-> r.docs, clock |-> now, nextId |-> st.nextId],
                            resp |-> [method |-> m, body |-> [error |-> wrapError(PatchError)]]]
                      ELSE wrote(r.docs)
            [] m = "delete" -> wrote(delete(st.docs, q))

\* One of the operations of the Simple Interface, called by name with
\* positional arguments against the store st: each forwards to the Data
\* Interface and returns plain data, or throws the wrapped error.
\* The result is [st, returned, thrown], the latter two optional values.
SimpleCall(st, k, args, fault) ==
  LET now == st.clock + 1
      arg(i) == IF Len(args) >= i THEN <<args[i]>> ELSE <<>>
      threw(at, e) == [st |-> at, returned |-> <<>>, thrown |-> <<wrapError(e)>>]
      read(v) == [st |-> st, returned |-> <<v>>, thrown |-> <<>>]
      wrote(docs) == [st |-> [docs |-> docs, clock |-> now, nextId |-> st.nextId],
                      returned |-> <<>>, thrown |-> <<>>]
  IN IF fault # <<>> THEN threw(st, fault[1])
     ELSE CASE k = "find" -> read(find(st.docs, arg(1)))
            [] k = "findOne" -> read(findOne(st.docs, arg(1)))
            [] k = "findById" -> read(findById(st.docs, arg(1)))
            [] k = "count" -> read(count(st.docs, arg(1)))
            [] k = "create" ->
                 LET doc == create(arg(1), FreshId(st.docs, st.nextId), now)
                 IN [st |-> [docs |-> Append(st.docs, doc), clock |-> now,
                             nextId |-> FreshId(st.docs, st.nextId) + 1],
                     returned |-> <<doc>>, thrown |-> <<>>]
            [] k = "update" ->
                 LET after == update(st.docs, arg(1), arg(2), Len(args) >= 3 /\ args[3],
                                     FreshId(st.docs, st.nextId), now)
                 IN [st |-> [docs |-> after, clock |-> now,
                             nextId |-> IF Len(after) > Len(st.docs)
                                          THEN FreshId(st.docs, st.nextId) + 1
                                        ELSE st.nextId],
                     returned |-> <<>>, thrown |-> <<>>]
            [] k = "patch" ->
                 LET r == patch(st.docs, FilterOf(arg(1)),
                                IF Len(args) >= 2 THEN args[2] ELSE <<>>, now)
                 IN IF r.failed
                      THEN threw([docs |-> r.docs, clock |-> now, nextId |-> st.nextId],
                                 PatchError)
                      ELSE wrote(r.docs)
            [] k = "delete" -> wrote(delete(st.docs, arg(1)))

-----------------------------------------------------------------------------
(* RPC adapter, src/RPCInterface.ts *)

\* Object.getOwnPropertyNames(modelInterface.__proto__)
SimpleModelInterfacePrototype ==
  <<"constructor", "find", "findOne", "findById", "count", "create", "update", "patch",
    "delete", "execute">>

\* a SimpleModelInterface over the Data Interface of the model called name
SimpleModelInterface(name) == [modelInterface |-> [name |-> name]]

\* a string is truthy unless it is undefined or empty; strings are sequences
\* of pieces and undefined is the optional value without one
Truthy(optional) == optional # <<>> /\ optional[1] # <<>>

\* get rpcInterfaceMethodPrefix(), lines 27-29
rpcInterfaceMethodPrefix(modelInterface, methodPrefix) ==
  (IF Truthy(methodPrefix) THEN methodPrefix[1] ELSE <<>>)
    \o modelInterface.modelInterface.name \o <<":">>

\* a faulty variant: only the constructor is skipped
RegisterMutant(methods, names, prefix) ==
  [key \in (DOMAIN methods) \cup {prefix \o <<names[i]>> :
                                     i \in {j \in 1..Len(names) : names[j] # "constructor"}} |->
     IF key \in DOMAIN methods THEN methods[key] ELSE key[Len(key)]]

\* the loop of the constructor, lines 21-24: methods[prefix + k] is the
\* operation k of the Simple Interface, bound to it
RECURSIVE Register(_, _, _)
Register(methods, names, prefix) ==
  IF names = <<>> THEN methods
  ELSE IF names[1] = "constructor" \/ names[1] = "execute"
    THEN Register(methods, Tail(names), prefix)
  ELSE Register(SetKey(methods, prefix \o <<names[1]>>, names[1]), Tail(names), prefix)

\* new RPCInterface(modelInterface, rpcServer, methodPrefix): the adapter and
\* the server it registered its methods with
RPCInterface(modelInterface, server, methodPrefix) ==
  [interface |-> [modelInterface |-> modelInterface, methodPrefix |-> methodPrefix],
   server |-> [methods |->
                 Register(server.methods, SimpleModelInterfacePrototype,
                          rpcInterfaceMethodPrefix(modelInterface, methodPrefix))]]

\* a multi-rpc Server with no method registered
NewServer == [methods |-> EmptyObj]

\* the members of the Simple Interface and of the Data Interface that an
\* adapter invokes
OnSimple(member) == [on |-> "SimpleModelInterface", member |-> member]

OnData(member) == [on |-> "ModelInterface", member |-> member]

\* a faulty variant: the registered method goes to the Data Interface
RPCInvokeMutant(st, server, key, args, fault) ==
  [st |-> SimpleCall(st, server.methods[key], args, fault).st,
   returned |-> SimpleCall(st, server.methods[key], args, fault).returned,
   thrown |-> SimpleCall(st, server.methods[key], args, fault).thrown,
   invoked |-> <<OnData(server.methods[key])>>]

\* the RPC server calls the method registered under key with args:
\* [st, returned, thrown, invoked]
RPCInvoke(st, server, key, args, fault) ==
  LET ran == SimpleCall(st, server.methods[key], args, fault)
  IN [st |-> ran.st, returned |-> ran.returned, thrown |-> ran.thrown,
      invoked |-> <<OnSimple(server.methods[key])>>]

-----------------------------------------------------------------------------
(* HTTP response side of the REST adapter *)

\* a fresh ServerResponse
NewResponse == [statusCode |-> 200, headers |-> EmptyObj, written |-> <<>>, ended |-> FALSE]

setHeader(res, k, v) == [res EXCEPT !.headers = SetKey(res.headers, k, v)]

\* new Date(text): the If-Modified-Since header is an ISO text or is no date
DateOfText(text) ==
  IF Has(text, "iso") THEN [nan |-> FALSE, ms |-> text.iso] ELSE [nan |-> TRUE, ms |-> 0]

\* new Date(doc[field]): only updatedAt holds a date
DateOfField(doc, field) ==
  IF field = "updatedAt" THEN [nan |-> FALSE, ms |-> doc[field]] ELSE [nan |-> TRUE, ms |-> 0]

\* Date.prototype.toISOString
toISOString(date) == [iso |-> date.ms]

\* a.getTime() <= b.getTime(); false when either is NaN
TimeLeq(a, b) == ~a.nan /\ ~b.nan /\ a.ms <= b.ms

\* a faulty variant: the comparison is taken the other way round
NotModifiedMutant(modSince, lastModified) == TimeLeq(lastModified, modSince)

\* modSince.getTime() <= lastModified.getTime() (line 309)
NotModified(modSince, lastModified) == TimeLeq(modSince, lastModified)

\* headerToSerializationFormat(req, 'accept').mimeType: the codec's default
\* when the header is absent
MimeType(req) == IF Has(req.headers, "accept") THEN req.headers.accept ELSE "application/json"

\* for (let header of [].concat(v || '')) res.setHeader(k, header)
RECURSIVE SetEach(_, _, _)
SetEach(res, k, items) ==
  IF items = <<>> THEN res ELSE SetEach(setHeader(res, k, items[1]), k, Tail(items))

RECURSIVE ReplayHeaders(_, _, _)
ReplayHeaders(res, headers, names) ==
  IF names = {} THEN res
  ELSE LET k == CHOOSE n \in names : TRUE
       IN ReplayHeaders(SetEach(res, k, headers[k].items), headers, names \ {k})

\* delete resp.body.error.isModelInterfaceError, then the body as serialized
Serialized(body) ==
  IF Has(body, "error") /\ Has(body.error, "isModelInterfaceError")
    THEN SetKey(body, "error",
                [k \in (DOMAIN body.error) \ {"isModelInterfaceError"} |-> body.error[k]])
    ELSE body

\* a faulty variant: no 404 rule for a null result
StatusRuleMutant(resp) ==
  IF ~Has(resp, "body") \/ resp.body = Null THEN "204"
  ELSE IF Has(resp, "method") /\ resp.method = "create" /\ Has(resp.body, "id") THEN "201"
  ELSE "body"

\* The status rules of execute, lines 318-361, on a response that was not
\* answered 304: the rule taken
StatusRule(resp) ==
  IF ~Has(resp, "body") \/ resp.body = Null THEN "204"
  ELSE IF Has(resp.body, "result") /\ resp.body.result = Null THEN "404"
  ELSE IF Has(resp, "method") /\ resp.method = "create" /\ Has(resp.body, "id") THEN "201"
  ELSE "body"

\* lines 331-335
SetXCount(res, httpReq, resp) ==
  IF Has(resp.body, "result") /\ httpReq.method = "HEAD"
    THEN setHeader(res, "X-Count", IF resp.body.result # Null THEN 1 ELSE 0)
  ELSE IF Has(resp.body, "count") THEN setHeader(res, "X-Count", resp.body.count)
  ELSE res

\* a faulty variant: the error's httpCode and headers are ignored
SetStatusMutant(res, resp) ==
  [res EXCEPT !.statusCode = IF Has(resp.body, "error") THEN 500 ELSE 200]

\* lines 337-350
SetStatus(res, resp) ==
  IF ~Has(resp.body, "error") THEN [res EXCEPT !.statusCode = 200]
  ELSE IF Has(resp.body.error, "headers")
    THEN ReplayHeaders([res EXCEPT !.statusCode = IF Has(resp.body.error, "httpCode")
                                                    THEN resp.body.error.httpCode ELSE 500],
                       resp.body.error.headers, DOMAIN resp.body.error.headers)
  ELSE [res EXCEPT !.statusCode = IF Has(resp.body.error, "httpCode")
                                    THEN resp.body.error.httpCode ELSE 500]

\* lines 352-358
WriteBody(res, httpReq, resp) ==
  IF httpReq.method # "HEAD"
    THEN [res EXCEPT !.written = Append(@, Serialized(resp.body))]
    ELSE res

end(res) == [res EXCEPT !.ended = TRUE]

\* a faulty variant: the identifier is not appended to the path
LocationMutant(httpReq, id) == Href(httpReq.url.path, httpReq.url.search)

\* lines 323-324: url.pathname += id; url.href
Location(httpReq, id) == Href(httpReq.url.path \o <<id>>, httpReq.url.search)

\* lines 318-361: status, headers and body for the operation response
Respond(res, httpReq, resp) ==
  CASE StatusRule(resp) = "204" -> end([res EXCEPT !.statusCode = 204])
    [] StatusRule(resp) = "404" -> end([res EXCEPT !.statusCode = 404])
    [] StatusRule(resp) = "201" ->
         end([setHeader(res, "Location", Location(httpReq, resp.body.id))
                EXCEPT !.statusCode = 201])
    [] OTHER ->
         end(WriteBody(SetStatus(SetXCount(setHeader(res, "Content-Type", MimeType(httpReq)),
                                           httpReq, resp),
                                 resp),
                       httpReq, resp))

\* line 301
LastModifiedField(opts) ==
  IF OptHas(opts, "lastModifiedField") THEN opts[1].lastModifiedField ELSE "updatedAt"

\* line 302: the single result carries the last-modified field
Dated(resp, field) ==
  /\ Has(resp, "body") /\ Has(resp.body, "result") /\ resp.body.result # Null
  /\ Has(resp.body.result, field)

\* lines 304-307
ModSince(httpReq) ==
  IF Has(httpReq.headers, "if-modified-since")
    THEN <<DateOfText(httpReq.headers["if-modified-since"])>> ELSE <<>>

\* lines 301-361: the HTTP response for the operation response; [res, raised]
Answer(httpReq, opts, resp) ==
  IF ~Dated(resp, LastModifiedField(opts))
    THEN [res |-> Respond(NewResponse, httpReq, resp), raised |-> FALSE]
  ELSE IF /\ ModSince(httpReq) # <<>>
          /\ NotModified(ModSince(httpReq)[1],
                         DateOfField(resp.body.result, LastModifiedField(opts)))
    THEN [res |-> end([NewResponse EXCEPT !.statusCode = 304]), raised |-> FALSE]
  ELSE IF DateOfField(resp.body.result, LastModifiedField(opts)).nan
    THEN [res |-> NewResponse, raised |-> TRUE]   \* toISOString of an invalid date
  ELSE [res |-> Respond(setHeader(NewResponse, "Last-Modified",
                                  toISOString(DateOfField(resp.body.result,
                                                          LastModifiedField(opts)))),
                        httpReq, resp),
        raised |-> FALSE]

\* lines 289-297: the response made up when the request could not be built
Caught(httpReq, err) ==
  IF HTTPMethodToOperation(httpReq.method) = <<>>
    THEN [id |-> Null, body |-> [error |-> wrapError(err)]]
    ELSE [method |-> HTTPMethodToOperation(httpReq.method)[1], id |-> Null,
          body |-> [error |-> wrapError(err)]]

Outcome(st, req, resp, dispatched, answer) ==
  [st |-> st, req |-> req, resp |-> <<resp>>, dispatched |-> dispatched,
   res |-> answer.res, raised |-> answer.raised]

Dispatched(httpReq, opts, request, ran) ==
  Outcome(ran.st, <<request>>, ran.resp, TRUE, Answer(httpReq, opts, ran.resp))

Settle(st, httpReq, opts, built, fault) ==
  IF built.threw
    THEN Outcome(st, <<>>, Caught(httpReq, built.error), FALSE,
                 Answer(httpReq, opts, Caught(httpReq, built.error)))
    ELSE Dispatched(httpReq, opts, built.value, SimpleExecute(st, built.value, fault))

\* RESTInterfaceHandler.execute(httpReq, res, opts) of the handler whose
\* options.parseOptions is parseOptions, against the store st:
\* [st, req, resp, dispatched, res, raised]
RESTExecute(st, httpReq, opts, parseOptions, fault) ==
  Settle(st, httpReq, opts,
         interfaceRequestFromHttpRequest(httpReq, IF opts = <<>> THEN parseOptions ELSE opts),
         fault)

-----------------------------------------------------------------------------
(* The handler of src/RESTInterfaceHandler.ts, which the connect middleware *)
(* imports: no parser options, no conditional GET, no catch.                *)

LegacyMethodOfVerb(verb, hasPathname) ==
  CASE verb = "POST" -> "create"
    [] verb = "PUT" -> "update"
    [] verb = "PATCH" -> "patch"
    [] verb = "DELETE" -> "delete"
    [] verb = "HEAD" -> "count"
    [] OTHER -> IF hasPathname THEN "findById" ELSE "find"

LegacyInterfaceRequestFromHttpRequest(req) ==
  LET buf == IF req.stream.buf.length = 0 THEN <<>> ELSE <<req.stream.buf>>
      targetId == Substr1(req.url.path)
      hasPathname == targetId # <<>>
      method == LegacyMethodOfVerb(req.method, hasPathname)
      body0 == IF hasPathname THEN LodashSet(EmptyObj, <<"query", "_id">>, Text(targetId))
               ELSE EmptyObj
      body1 == IF buf # <<>> THEN Spread(buf[1].obj, body0) ELSE body0
  IN IF req.stream.fails
       THEN [threw |-> TRUE, error |-> [message |-> <<"request aborted">>]]
     ELSE IF Falsy(method)
       THEN [threw |-> TRUE, error |-> [message |-> <<"Invalid HTTP method", req.method>>]]
     ELSE IF buf # <<>> /\ ~buf[1].decodes
       THEN [threw |-> TRUE, error |-> [message |-> <<"deserialize">>]]
     ELSE [threw |-> FALSE,
           value |-> [method |-> method,
                      body |-> OverrideWithQueryString(body1, req.url.search)]]

LegacyRespond(res, httpReq, resp) ==
  IF ~Has(resp, "body") \/ resp.body = Null
    THEN [res EXCEPT !.statusCode = 204, !.ended = TRUE]
  ELSE IF resp.method = "create" /\ Has(resp.body, "id")
    THEN [setHeader(res, "Location",
                    Href(httpReq.url.path \o <<resp.body.id>>, httpReq.url.search))
            EXCEPT !.statusCode = 201, !.ended = TRUE]
  ELSE [setHeader(res, "Content-Type", MimeType(httpReq))
          EXCEPT !.statusCode = IF Has(resp.body, "error")
                                  THEN IF Has(resp.body.error, "httpCode")
                                         THEN resp.body.error.httpCode ELSE 500
                                  ELSE 200,
                 !.written = Append(@, resp.body),
                 !.ended = TRUE]

\* RESTInterfaceHandler.execute(httpReq, res) of src/RESTInterfaceHandler.ts
LegacyRESTExecute(st, httpReq, fault) ==
  LET built == LegacyInterfaceRequestFromHttpRequest(httpReq)
      ran == SimpleExecute(st, built.value, fault)
  IN IF built.threw
       THEN [st |-> st, req |-> <<>>, resp |-> <<>>, dispatched |-> FALSE,
             res |-> NewResponse, raised |-> TRUE]
       ELSE [st |-> ran.st, req |-> <<built.value>>, resp |-> <<ran.resp>>,
             dispatched |-> TRUE, res |-> LegacyRespond(NewResponse, httpReq, ran.resp),
             raised |-> FALSE]

-----------------------------------------------------------------------------
(* Inputs *)

Values == {"v1", "v2"}

Times == 1..(MaxTime + 1)

Ids == {IdOf(1), IdOf(2)}

EmptyBuffer == [length |-> 0, decodes |-> TRUE, obj |-> EmptyObj]

Buffer(obj) == [length |-> 1, decodes |-> TRUE, obj |-> obj]

GarbageBuffer == [length |-> 1, decodes |-> FALSE, obj |-> EmptyObj]

FieldsBody(v) == [fields |-> [f |-> v]]

PatchesBody == [patches |-> <<[op |-> "replace", path |-> "f", value |-> "v2"]>>]

AddThenReplaceBody ==
  [patches |-> <<[op |-> "add", path |-> "f", value |-> "v1"],
                 [op |-> "replace", path |-> "f", value |-> "v2"]>>]

UpsertBody == [query |-> [query |-> [f |-> "v2"]], fields |-> [f |-> "v2"], upsert |-> TRUE]

Buffers == {EmptyBuffer, GarbageBuffer, Buffer(FieldsBody("v1")), Buffer(PatchesBody),
            Buffer(UpsertBody)}

Verbs == HTTPMethods \cup {"OPTIONS"}

BasePath == <<"/">>

IdPaths == {<<"/", id>> : id \in Ids}

NoSearch == <<>>

Searches == {<<[key |-> <<"limit">>, raw |-> "1"]>>,
             <<[key |-> <<"query", "f">>, raw |-> "v1"]>>,
             <<[key |-> <<"query", "_id">>, raw |-> "id2"]>>,
             <<[key |-> <<"skip">>, raw |-> "1"], [key |-> <<"populate">>, raw |-> "true"]>>,
             <<[key |-> <<"sort", "_id">>, raw |-> "-1"]>>}

IncomingMessage(method, path, search, headers, body, buf, fails) ==
  [method |-> method, url |-> [path |-> path, search |-> search], headers |-> headers,
   body |-> body, stream |-> [buf |-> buf, fails |-> fails]]

NoHeaders == EmptyObj

IfModifiedSince == {[iso |-> t] : t \in Times} \cup {[text |-> "yesterday"]}

NoFault == <<>>

Faults == {<<[message |-> <<"store">>]>>,
           <<[message |-> <<"conflict">>, httpCode |-> 409, isModelInterfaceError |-> TRUE]>>,
           <<[message |-> <<"busy">>, httpCode |-> 503, isModelInterfaceError |-> TRUE,
              headers |-> [Warning |-> [array |-> TRUE, items |-> <<"w1", "w2">>]]]>>}

NoOpts == <<>>

ReadOnly == <<"find", "findOne", "findById">>

\* a REST call: the request, the per-call opts and the store's fault
Call(httpReq, opts, fault) == [httpReq |-> httpReq, opts |-> opts, fault |-> fault]

PlainCalls ==
  {Call(IncomingMessage(m, p, NoSearch, NoHeaders, <<>>, b, FALSE), NoOpts, NoFault) :
     m \in Verbs, p \in {BasePath} \cup IdPaths, b \in Buffers}

\* a body whose query the query string can meet
PagedBody == [query |-> [limit |-> 2, query |-> [f |-> "v2"]], fields |-> [f |-> "v1"]]

SearchCalls ==
  {Call(IncomingMessage(m, p, s, NoHeaders, <<>>, b, FALSE), NoOpts, NoFault) :
     m \in {"GET", "HEAD", "DELETE"}, p \in {BasePath, <<"/", IdOf(1)>>}, s \in Searches,
     b \in {EmptyBuffer, Buffer(PagedBody)}}

AbortedCalls ==
  {Call(IncomingMessage(m, p, NoSearch, NoHeaders, <<>>, EmptyBuffer, TRUE), NoOpts, NoFault) :
     m \in Verbs, p \in {BasePath, <<"/", IdOf(1)>>}}

PreBufferedCalls ==
  {Call(IncomingMessage("POST", BasePath, NoSearch, NoHeaders, <<b>>, EmptyBuffer, TRUE),
        NoOpts, NoFault) :
     b \in {Buffer(FieldsBody("v2")), EmptyBuffer}}

ConditionalCalls ==
  {Call(IncomingMessage(m, p, NoSearch, [x \in {"if-modified-since"} |-> h], <<>>,
                        EmptyBuffer, FALSE), NoOpts, NoFault) :
     m \in {"GET", "HEAD"}, p \in IdPaths, h \in IfModifiedSince}

FaultCalls ==
  {Call(IncomingMessage(m, p, NoSearch, NoHeaders, <<>>, EmptyBuffer, FALSE), NoOpts, e) :
     m \in Verbs, p \in {BasePath, <<"/", IdOf(1)>>}, e \in Faults}

PerCallOpts == {<<[allowedMethods |-> <<"count", "create", "count">>]>>,
                <<[skipParseBody |-> TRUE]>>,
                <<[lastModifiedField |-> "f"]>>}

OptsCalls ==
  {Call(IncomingMessage(m, p, NoSearch, NoHeaders, <<>>, Buffer(FieldsBody("v1")), FALSE),
        o, NoFault) :
     m \in {"GET", "HEAD", "POST", "PUT"}, p \in {BasePath, <<"/", IdOf(1)>>}, o \in PerCallOpts}

Calls == PlainCalls \cup SearchCalls \cup AbortedCalls \cup PreBufferedCalls
           \cup ConditionalCalls \cup FaultCalls \cup OptsCalls

LegacyCalls ==
  {Call(IncomingMessage(m, p, NoSearch, NoHeaders, <<>>, b, fails), NoOpts, NoFault) :
     m \in Verbs, p \in {BasePath, <<"/", IdOf(1)>>},
     b \in {EmptyBuffer, GarbageBuffer, Buffer(FieldsBody("v1"))}, fails \in BOOLEAN}

QueryBody == [query |-> [query |-> [f |-> "v1"]]]

\* Queries with sort, skip and limit
SortedQueries ==
  {[sort |-> [_id |-> d], query |-> EmptyObj, skip |-> s, limit |-> l] :
     d \in {1, -1}, s \in {0, 1}, l \in {1, 2}}
    \cup {[sort |-> [updatedAt |-> -1], skip |-> 1],
          [sort |-> [f |-> 1], query |-> [f |-> "v1"], limit |-> 1]}

OperationRequests ==
  {[method |-> m, body |-> b] : m \in {"find", "findOne", "count", "delete"},
                                 b \in {EmptyObj, QueryBody}}
    \cup {[method |-> m, body |-> [query |-> q]] : m \in {"find", "findOne"}, q \in SortedQueries}
    \cup {[method |-> "findById", body |-> [id |-> i]] : i \in Ids}
    \cup {[method |-> "create", body |-> FieldsBody(v)] : v \in Values}
    \cup {[method |-> "update", body |-> Spread(QueryBody, FieldsBody("v2"))],
          [method |-> "update", body |-> UpsertBody],
          [method |-> "update", body |-> [UpsertBody EXCEPT !.query = QueryBody.query]],
          [method |-> "patch", body |-> Spread(QueryBody, PatchesBody)],
          [method |-> "patch", body |-> AddThenReplaceBody]}

\* the arguments an RPC client passes to the operation k
Arguments(k) ==
  CASE k \in {"find", "findOne"} ->
         {<<>>, <<QueryBody.query>>} \cup {<<q>> : q \in SortedQueries}
    [] k \in {"count", "delete"} -> {<<>>, <<QueryBody.query>>}
    [] k = "findById" -> {<<i>> : i \in Ids}
    [] k = "create" -> {<<FieldsBody(v).fields>> : v \in Values}
    [] k = "update" -> {<<QueryBody.query, FieldsBody("v2").fields, FALSE>>,
                        <<UpsertBody.query, UpsertBody.fields, TRUE>>}
    [] k = "patch" -> {<<QueryBody.query, PatchesBody.patches>>,
                       <<[query |-> EmptyObj], PatchesBody.patches>>}
    [] OTHER -> {<<EmptyObj>>}

RPCFaults == {NoFault, <<[message |-> <<"store">>]>>}

\* the model's name and the prefix of the RPC test; a prefix is an optional
\* string: undefined, empty or not
ModelName == <<"Bar">>

TestPrefix == <<"Foo:">>

ModelNames == {ModelName, <<"Baz">>}

MethodPrefixes == {<<>>, <<<<>>>>, <<TestPrefix>>}

\* options.parseOptions as given to the constructor
ParseOptions == {<<>>, <<[allowedMethods |-> ReadOnly]>>, <<[lastModifiedField |-> "f"]>>}

Document(n, v, t) == [_id |-> IdOf(n), f |-> v, updatedAt |-> t]

\* the collection when the first request arrives
InitialCollections ==
  {<<>>,
   <<Document(3, "v1", 1), Document(1, "v2", 1)>>,
   <<Document(1, "v1", 1), [_id |-> IdOf(2), updatedAt |-> 1], Document(3, "v1", 1)>>}

-----------------------------------------------------------------------------
(* State *)

VARIABLES
  docs,          \* the collection
  clock,         \* the store's time
  nextId,        \* the number of the next generated identifier
  parseOptions,  \* RESTInterfaceHandler.options.parseOptions
  created,       \* the document made by the last POST, while no write followed it
  handler,       \* the entry point of the last call
  httpReq,       \* its IncomingMessage
  opts,          \* its per-call parser options
  fault,         \* the error its store call raised, if any
  req,           \* the operation request it built, if any
  resp,          \* the operation response it got or made up, if any
  dispatched,    \* whether it invoked the dispatcher
  res,           \* its ServerResponse
  raised,        \* whether it raised to its caller
  invoked,       \* the members of the interfaces its adapter invoked, in order
  rpcInterface,  \* the RPCInterface, once constructed
  rpcServer,     \* the multi-rpc Server it registers with
  rpc,           \* the RPC call of the last exchange, if it was one
  tasks,         \* the update calls in progress, each at its own position
  exchanges,     \* the HTTP exchanges in progress, each at its own position
  middleware     \* the connect middleware's call in progress, if any

vars == <<docs, clock, nextId, parseOptions, created, handler, httpReq, opts, fault,
          req, resp, dispatched, res, raised, invoked, rpcInterface, rpcServer, rpc,
          tasks, exchanges, middleware>>

\* what the requests served one at a time leave alone
concurrent == <<tasks, exchanges, middleware>>

store == [docs |-> docs, clock |-> clock, nextId |-> nextId]

NoMessage == IncomingMessage("", <<>>, NoSearch, NoHeaders, <<>>, EmptyBuffer, FALSE)

\* no request has been served yet
Waiting ==
  /\ clock = 1
  /\ nextId = 1
  /\ created = <<>>
  /\ handler = "none"
  /\ httpReq = NoMessage
  /\ opts = NoOpts
  /\ fault = NoFault
  /\ req = <<>>
  /\ resp = <<>>
  /\ dispatched = FALSE
  /\ res = NewResponse
  /\ raised = FALSE
  /\ invoked = <<>>
  /\ rpc = <<>>
  /\ tasks = <<>>
  /\ exchanges = <<>>
  /\ middleware = <<>>

\* the adapters are constructed over one Simple Interface: the REST handler
\* with its options, the RPC interface as in the test of
\* src/test/src/RPCModelInterface.ts
Init ==
  /\ docs \in InitialCollections
  /\ parseOptions \in ParseOptions
  /\ Waiting
  /\ rpcInterface = <<RPCInterface(SimpleModelInterface(ModelName), NewServer,
                                   <<TestPrefix>>).interface>>
  /\ rpcServer = RPCInterface(SimpleModelInterface(ModelName), NewServer,
                              <<TestPrefix>>).server

Last(s) == s[Len(s)]

\* the calls an entry point makes on the Simple Interface and on its Data
\* Interface: part_002:294 and 299, src/RESTInterfaceHandler.ts:170; a direct
\* call of the dispatcher involves no adapter
Invocations(name, out) ==
  CASE name = "rest" ->
         IF out.dispatched THEN <<OnSimple("execute")>> ELSE <<OnData("wrapError")>>
    [] name = "legacy" -> IF out.dispatched THEN <<OnSimple("execute")>> ELSE <<>>
    [] OTHER -> <<>>

\* what a call leaves behind; created remembers the identifier the client read
\* from the Location header of its last answered POST and the fields it
\* posted, for as long as the collection stays as that POST left it
Finish(name, c, out) ==
  /\ invoked' = Invocations(name, out)
  /\ rpc' = <<>>
  /\ UNCHANGED <<rpcInterface, rpcServer, concurrent>>
  /\ docs' = out.st.docs
  /\ clock' = out.st.clock
  /\ nextId' = out.st.nextId
  /\ handler' = name
  /\ httpReq' = c.httpReq
  /\ opts' = c.opts
  /\ fault' = c.fault
  /\ req' = out.req
  /\ resp' = out.resp
  /\ dispatched' = out.dispatched
  /\ res' = out.res
  /\ raised' = out.raised
  /\ created' = IF /\ name = "rest" /\ c.httpReq.method = "POST" /\ out.res.statusCode = 201
                   /\ out.req # <<>> /\ Has(out.req[1].body, "fields")
                  THEN <<[id |-> Last(out.res.headers.Location),
                          fields |-> out.req[1].body.fields]>>
                ELSE IF out.st.docs # docs THEN <<>>
                ELSE created
  /\ UNCHANGED parseOptions

\* the store takes no write once its clock has reached MaxTime
Admitted(out) == out.st.clock <= MaxTime

\* no exchange is in progress: the server waits for a request
Idle == handler = "none"

\* an HTTP request served by RESTInterfaceHandler.execute
Execute ==
  \E c \in Calls :
    LET out == RESTExecute(store, c.httpReq, c.opts, parseOptions, c.fault)
    IN Idle /\ Admitted(out) /\ Finish("rest", c, out)

\* an HTTP request served by the execute of src/RESTInterfaceHandler.ts
LegacyExecute ==
  \E c \in LegacyCalls :
    LET out == LegacyRESTExecute(store, c.httpReq, c.fault)
    IN Idle /\ Admitted(out) /\ Finish("legacy", c, out)

\* a direct call of SimpleModelInterface.execute
Dispatch ==
  \E r \in OperationRequests, e \in {NoFault} \cup Faults :
    LET ran == SimpleExecute(store, r, e)
        out == [st |-> ran.st, req |-> <<r>>, resp |-> <<ran.resp>>, dispatched |-> TRUE,
                res |-> NewResponse, raised |-> FALSE]
    IN Idle /\ Admitted(out) /\ Finish("simple", Call(NoMessage, NoOpts, e), out)

\* the exchange is over: its request and response objects are dropped, and
\* the server waits for the next request with a fresh ServerResponse
Accept ==
  /\ ~Idle
  /\ handler' = "none"
  /\ httpReq' = NoMessage
  /\ opts' = NoOpts
  /\ fault' = NoFault
  /\ req' = <<>>
  /\ resp' = <<>>
  /\ dispatched' = FALSE
  /\ res' = NewResponse
  /\ raised' = FALSE
  /\ invoked' = <<>>
  /\ rpc' = <<>>
  /\ UNCHANGED <<docs, clock, nextId, parseOptions, created, rpcInterface, rpcServer,
                 concurrent>>

\* a call of a registered RPC method, by the multi-rpc server
Invoke ==
  \E key \in DOMAIN rpcServer.methods, e \in RPCFaults :
    \E args \in Arguments(rpcServer.methods[key]) :
      LET ran == RPCInvoke(store, rpcServer, key, args, e)
      IN /\ Idle /\ ran.st.clock <= MaxTime
         /\ docs' = ran.st.docs
         /\ clock' = ran.st.clock
         /\ nextId' = ran.st.nextId
         /\ handler' = "rpc"
         /\ fault' = e
         /\ rpc' = <<[key |-> key, args |-> args, returned |-> ran.returned,
                      thrown |-> ran.thrown]>>
         /\ invoked' = ran.invoked
         /\ raised' = (ran.thrown # <<>>)
         /\ created' = IF ran.st.docs # docs THEN <<>> ELSE created
         /\ UNCHANGED <<parseOptions, httpReq, opts, req, resp, dispatched, res,
                        rpcInterface, rpcServer, concurrent>>

Next == Execute \/ LegacyExecute \/ Dispatch \/ Invoke \/ Accept

Spec == Init /\ [][Next]_vars

\* the collection as a test leaves it for its calls, no request served and no
\* RPC adapter constructed yet
Fresh ==
  /\ docs \in InitialCollections
  /\ parseOptions \in ParseOptions
  /\ Waiting
  /\ rpcInterface = <<>>
  /\ rpcServer = NewServer

\* new RPCInterface(modelInterface, rpcServer, methodPrefix)
Construct ==
  \E name \in ModelNames, p \in MethodPrefixes :
    /\ rpcInterface = <<>>
    /\ rpcInterface' = <<RPCInterface(SimpleModelInterface(name), rpcServer, p).interface>>
    /\ rpcServer' = RPCInterface(SimpleModelInterface(name), rpcServer, p).server
    /\ UNCHANGED <<docs, clock, nextId, parseOptions, created, handler, httpReq, opts,
                   fault, req, resp, dispatched, res, raised, invoked, rpc, concurrent>>

RPCNext == Construct \/ Invoke \/ Accept

\* the RPC adapter from its construction on: any prefix, any model
RPCSpec == Fresh /\ [][RPCNext]_vars

-----------------------------------------------------------------------------
(* update(q, fields, true) as the two store calls it makes: the query, and *)
(* then the write that its answer decides.  Several calls are in progress  *)
(* at once and the store serves one call of any of them at a time.          *)

MaxTasks == 2

\* the upserts that clients send
Upserts ==
  {[q |-> [query |-> [f |-> v]], fields |-> [f |-> v]] : v \in Values}

\* the first store call: does a document match q
upsertQuery(stored, q) == Select(stored, FilterOf(<<q>>)) # <<>>

\* a faulty variant: the write looks at the collection again
upsertWriteMutant(stored, task, id, now) ==
  update(stored, <<task.q>>, <<task.fields>>, TRUE, id, now)

\* the second store call: the fields set on the matching documents when the
\* query found one, a document created when it found none
upsertWrite(stored, task, id, now) ==
  IF task.matched
    THEN update(stored, <<task.q>>, <<task.fields>>, FALSE, id, now)
    ELSE stored \o update(<<>>, <<task.q>>, <<task.fields>>, TRUE, id, now)

\* a client calls update(q, fields, true); the call waits for its query
UpsertCall ==
  \E u \in Upserts :
    /\ Len(tasks) < MaxTasks
    /\ tasks' = Append(tasks, [pc |-> "query", q |-> u.q, fields |-> u.fields,
                               matched |-> FALSE])
    /\ UNCHANGED <<docs, clock, nextId, parseOptions, created, handler, httpReq, opts,
                   fault, req, resp, dispatched, res, raised, invoked, rpcInterface,
                   rpcServer, rpc, exchanges, middleware>>

\* the store answers the query of the call t
UpsertQuery ==
  \E t \in 1..Len(tasks) :
    /\ tasks[t].pc = "query"
    /\ tasks' = [tasks EXCEPT ![t].pc = "write",
                              ![t].matched = upsertQuery(docs, tasks[t].q)]
    /\ UNCHANGED <<docs, clock, nextId, parseOptions, created, handler, httpReq, opts,
                   fault, req, resp, dispatched, res, raised, invoked, rpcInterface,
                   rpcServer, rpc, exchanges, middleware>>

\* the store performs the write of the call t
UpsertWrite ==
  \E t \in 1..Len(tasks) :
    /\ tasks[t].pc = "write"
    /\ tasks' = [tasks EXCEPT ![t].pc = "done"]
    /\ docs' = upsertWrite(docs, tasks[t], FreshId(docs, nextId), clock + 1)
    /\ clock' = clock + 1
    /\ nextId' = IF Len(docs') > Len(docs) THEN FreshId(docs, nextId) + 1 ELSE nextId
    /\ UNCHANGED <<parseOptions, created, handler, httpReq, opts, fault, req, resp,
                   dispatched, res, raised, invoked, rpcInterface, rpcServer, rpc,
                   exchanges, middleware>>

UpsertNext == UpsertCall \/ UpsertQuery \/ UpsertWrite

UpsertSpec == Fresh /\ [][UpsertNext]_vars

-----------------------------------------------------------------------------
(* RESTInterfaceHandler.execute as the steps between its awaits: the body  *)
(* read (line 210) and the dispatcher's call (line 299).  Several exchanges *)
(* are in progress at once on one handler.                                  *)

\* the requests in progress at once
ConcurrentCalls ==
  {Call(IncomingMessage("POST", BasePath, NoSearch, NoHeaders, <<>>,
                        Buffer(FieldsBody("v1")), FALSE), NoOpts, NoFault),
   Call(IncomingMessage("GET", BasePath, NoSearch, NoHeaders, <<>>, EmptyBuffer, FALSE),
        NoOpts, NoFault),
   Call(IncomingMessage("HEAD", <<"/", IdOf(1)>>, NoSearch, NoHeaders, <<>>, EmptyBuffer,
                        FALSE),
        <<[allowedMethods |-> <<"count", "create", "count">>]>>, NoFault),
   Call(IncomingMessage("PUT", <<"/", IdOf(1)>>, NoSearch, NoHeaders, <<>>,
                        Buffer(FieldsBody("v2")), FALSE), NoOpts, NoFault),
   Call(IncomingMessage("DELETE", BasePath, NoSearch, NoHeaders, <<>>, GarbageBuffer, FALSE),
        <<[skipParseBody |-> TRUE]>>, NoFault),
   Call(IncomingMessage("GET", <<"/", IdOf(1)>>, NoSearch,
                        [x \in {"if-modified-since"} |-> [iso |-> 1]], <<>>, EmptyBuffer,
                        FALSE), NoOpts, NoFault),
   Call(IncomingMessage("PATCH", BasePath, NoSearch, NoHeaders, <<>>, Buffer(PatchesBody),
                        TRUE), NoOpts, NoFault)}

\* a faulty variant: the per-call options are kept on the handler
OptionsAfterMutant(options, given) == IF given = NoOpts THEN options ELSE given

\* this.options.parseOptions once interfaceRequestFromHttpRequest has taken
\* its opts (line 204): the handler's options are read, never assigned
OptionsAfter(options, given) == options

\* execute(httpReq, res, opts) is called: opts is defaulted and the body read
\* is awaited
Arrive ==
  \E c \in ConcurrentCalls :
    /\ Len(exchanges) < MaxTasks
    /\ exchanges' = Append(exchanges,
                           [pc |-> "body", call |-> c,
                            inForce |-> IF c.opts = NoOpts THEN parseOptions ELSE c.opts])
    /\ parseOptions' = OptionsAfter(parseOptions, c.opts)
    /\ UNCHANGED <<docs, clock, nextId, created, handler, httpReq, opts, fault, req, resp,
                   dispatched, res, raised, invoked, rpcInterface, rpcServer, rpc, tasks,
                   middleware>>

\* the body read of the exchange i is over: the operation request is built,
\* and the dispatcher called, or the failure answered
BodyRead ==
  \E i \in 1..Len(exchanges) :
    LET e == exchanges[i]
        built == interfaceRequestFromHttpRequest(e.call.httpReq, e.inForce)
        out == Settle(store, e.call.httpReq, e.call.opts, built, e.call.fault)
    IN /\ e.pc = "body"
       /\ exchanges' =
            [exchanges EXCEPT ![i] =
               IF built.threw
                 THEN [pc |-> "done", call |-> e.call, seen |-> store, req |-> out.req,
                       res |-> out.res, raised |-> out.raised]
                 ELSE [pc |-> "store", call |-> e.call, request |-> built.value]]
       /\ UNCHANGED <<docs, clock, nextId, parseOptions, created, handler, httpReq, opts,
                      fault, req, resp, dispatched, res, raised, invoked, rpcInterface,
                      rpcServer, rpc, tasks, middleware>>

\* the dispatcher answers the exchange i, which ends its HTTP response
StoreAnswered ==
  \E i \in 1..Len(exchanges) :
    LET e == exchanges[i]
        out == Dispatched(e.call.httpReq, e.call.opts, e.request,
                          SimpleExecute(store, e.request, e.call.fault))
    IN /\ e.pc = "store"
       /\ exchanges' = [exchanges EXCEPT ![i] =
                          [pc |-> "done", call |-> e.call, seen |-> store, req |-> out.req,
                           res |-> out.res, raised |-> out.raised]]
       /\ docs' = out.st.docs
       /\ clock' = out.st.clock
       /\ nextId' = out.st.nextId
       /\ UNCHANGED <<parseOptions, created, handler, httpReq, opts, fault, req, resp,
                      dispatched, res, raised, invoked, rpcInterface, rpcServer, rpc, tasks,
                      middleware>>

ConcurrentNext == Arrive \/ BodyRead \/ StoreAnswered

ConcurrentSpec == Fresh /\ [][ConcurrentNext]_vars

-----------------------------------------------------------------------------
(* src/RESTInterfaceMiddleware.ts: the connect middleware over the execute  *)
(* of src/RESTInterfaceHandler.ts.  The promise chain of lines 16-22 is     *)
(* followed link by link; callback is the caller's function, which may      *)
(* throw when it is called.                                                 *)

\* lines 15-16: the middleware is called with req, res and callback, and
\* RESTInterfaceMiddlewareInner is started; req is the IncomingMessage, or a
\* ClientRequest whose response message is still to come
RESTInterfaceMiddlewareHandler ==
  \E c \in LegacyCalls, isMessage \in BOOLEAN, throws \in BOOLEAN :
    /\ middleware = <<>>
    /\ middleware' = <<[pc |-> "inner", call |-> c, isMessage |-> isMessage,
                        callbackThrows |-> throws, res |-> NewResponse, called |-> <<>>]>>
    /\ UNCHANGED <<docs, clock, nextId, parseOptions, created, handler, httpReq, opts,
                   fault, req, resp, dispatched, res, raised, invoked, rpcInterface,
                   rpcServer, rpc, tasks, exchanges>>

\* lines 5-12: the message is req itself, or the one of the 'response' event
\* (an 'error' event rejects); then execute is awaited, and the promise of
\* Inner is fulfilled when execute returns and rejected when it throws
RESTInterfaceMiddlewareInner ==
  \E event \in {"response", "error"} :
    LET m == middleware[1]
        out == LegacyRESTExecute(store, m.call.httpReq, m.call.fault)
    IN /\ middleware # <<>> /\ m.pc = "inner"
       /\ m.isMessage => event = "response"
       /\ event = "response" => Admitted(out)
       /\ middleware' =
            IF event = "error"
              THEN <<[m EXCEPT !.pc = "rejected"]>>
              ELSE <<[m EXCEPT !.pc = IF out.raised THEN "rejected" ELSE "fulfilled",
                               !.res = out.res]>>
       /\ docs' = IF event = "error" THEN docs ELSE out.st.docs
       /\ clock' = IF event = "error" THEN clock ELSE out.st.clock
       /\ nextId' = IF event = "error" THEN nextId ELSE out.st.nextId
       /\ UNCHANGED <<parseOptions, created, handler, httpReq, opts, fault, req, resp,
                      dispatched, res, raised, invoked, rpcInterface, rpcServer, rpc, tasks,
                      exchanges>>

\* lines 17-19: .then runs callback(null); if callback throws, the promise
\* .then returned is rejected, and .catch is chained to that promise
Then ==
  /\ middleware # <<>> /\ middleware[1].pc = "fulfilled"
  /\ middleware' =
       <<[middleware[1] EXCEPT !.called = Append(@, Null),
                               !.pc = IF middleware[1].callbackThrows
                                        THEN "rejected" ELSE "settled"]>>
  /\ UNCHANGED <<docs, clock, nextId, parseOptions, created, handler, httpReq, opts,
                 fault, req, resp, dispatched, res, raised, invoked, rpcInterface,
                 rpcServer, rpc, tasks, exchanges>>

\* lines 20-22: .catch runs callback(err) for a rejection of Inner or of the
\* .then link
Catch ==
  /\ middleware # <<>> /\ middleware[1].pc = "rejected"
  /\ middleware' =
       <<[middleware[1] EXCEPT !.called = Append(@, [message |-> <<"err">>]),
                               !.pc = "settled"]>>
  /\ UNCHANGED <<docs, clock, nextId, parseOptions, created, handler, httpReq, opts,
                 fault, req, resp, dispatched, res, raised, invoked, rpcInterface,
                 rpcServer, rpc, tasks, exchanges>>

MiddlewareNext == RESTInterfaceMiddlewareHandler \/ RESTInterfaceMiddlewareInner
                    \/ Then \/ Catch

MiddlewareSpec == Fresh /\ [][MiddlewareNext]_vars

-----------------------------------------------------------------------------
(* Properties *)

\* the last call was served by the REST adapter's execute
Rest == handler = "rest"

\* the request URL has a non-empty path remainder after the base
HasPath == Len(httpReq.url.path) > 1

\* the operation response of the last call carries an error
Failed == resp # <<>> /\ Has(resp[1], "body") /\ Has(resp[1].body, "error")

\* e is the wrapped form of the failure err
WrappedFormOf(e, err) ==
  /\ Has(e, "isModelInterfaceError")
  /\ IF Has(err, "isModelInterfaceError") THEN e = err
     ELSE Has(e, "innerError") /\ e.innerError = err /\ e.message = err.message

\* C1: whenever the dispatcher's execute is invoked, it returns an operation
\* response for the request's method and does not raise; when the store call
\* it routed to failed, the response is {method, body: {error}} and error is
\* the wrapped form of that failure.
C1_ExecuteReturnsWrappedError ==
  dispatched =>
    /\ resp # <<>>
    /\ resp[1].method = req[1].method
    /\ handler = "simple" => ~raised
    /\ fault # NoFault =>
         /\ DOMAIN resp[1] = {"method", "body"}
         /\ DOMAIN resp[1].body = {"error"}
         /\ WrappedFormOf(resp[1].body.error, fault[1])

C1_Witness ==
  /\ handler = "simple" /\ dispatched /\ fault # NoFault /\ ~raised
  /\ ~Has(fault[1], "isModelInterfaceError")
  /\ resp[1].body.error.innerError = fault[1]

\* the operation the spec gives for one of the six verbs
SpecOperation(verb, hasPath) ==
  CASE verb = "POST" -> "create"
    [] verb = "PUT" -> "update"
    [] verb = "PATCH" -> "patch"
    [] verb = "DELETE" -> "delete"
    [] verb = "HEAD" -> IF hasPath THEN "findOne" ELSE "count"
    [] verb = "GET" -> IF hasPath THEN "findOne" ELSE "find"

C3_InvalidMethodRejected ==
  (Rest /\ httpReq.method \notin HTTPMethods) => (req = <<>> /\ ~dispatched)

\* the parser options in force for the last REST call
InForce == IF opts = NoOpts THEN parseOptions ELSE opts

Restricted == OptHas(InForce, "allowedMethods")

\* the request body was buffered, or did not have to be
Buffered == ~(ReadsStream(httpReq, InForce) /\ httpReq.stream.fails)

\* the operation a verb maps to, before any rewrite
VerbOperation(verb, hasPath) ==
  IF verb = "HEAD" THEN "count" ELSE SpecOperation(verb, hasPath)

\* C4: under an allowedMethods restriction, a request whose verb resolves to
\* an operation outside it is answered 405 with an Allow header holding
\* exactly the verbs of the allowed operations, each once, and the dispatcher
\* is not invoked.  (The operation is resolved once the body is buffered.)
C4_DisallowedAnswered405 ==
  (/\ Rest /\ Restricted /\ Buffered /\ httpReq.method \in HTTPMethods
   /\ ~Includes(InForce[1].allowedMethods, VerbOperation(httpReq.method, HasPath))) =>
    /\ res.statusCode = 405 /\ res.ended
    /\ Has(res.headers, "Allow")
    /\ Elems(res.headers.Allow) =
         {OperationToHTTPMethod[m] : m \in Elems(InForce[1].allowedMethods)}
    /\ Cardinality(Elems(res.headers.Allow)) = Len(res.headers.Allow)
    /\ ~dispatched

C4_Witness ==
  /\ Rest /\ Restricted /\ InForce[1].allowedMethods = ReadOnly
  /\ httpReq.method = "POST" /\ res.statusCode = 405
  /\ res.headers.Allow = <<"GET">> /\ ~dispatched

\* the status an error is answered with
ErrorStatus(error) == IF Has(error, "httpCode") THEN error.httpCode ELSE 500

\* C5 (as claimed): when the operation request cannot be built, execute does
\* not raise, skips the dispatcher, makes up a response carrying the wrapped
\* error and ends the HTTP response with the error's httpCode, or 500.
C5_BuildFailureAnswered ==
  (handler \in {"rest", "legacy"} /\ req = <<>>) =>
    /\ ~raised /\ ~dispatched /\ Failed
    /\ Has(resp[1].body.error, "isModelInterfaceError")
    /\ res.ended /\ res.statusCode = ErrorStatus(resp[1].body.error)

\* the If-Modified-Since header of the last request holds the time t
Since(t) ==
  /\ Has(httpReq.headers, "if-modified-since")
  /\ httpReq.headers["if-modified-since"] = [iso |-> t]

\* the single result of the last call carries updatedAt
Stamped ==
  /\ resp # <<>> /\ Has(resp[1], "body") /\ Has(resp[1].body, "result")
  /\ resp[1].body.result # Null /\ Has(resp[1].body.result, "updatedAt")

\* C6 (as claimed): with a last-modified field on the result and an
\* If-Modified-Since time on the request, the answer is 304 exactly when the
\* stored time is not newer than the requested one.
C6_NotModifiedWhenNotNewer ==
  \A t \in Times :
    (Rest /\ opts = NoOpts /\ Stamped /\ Since(t)) =>
      (res.statusCode = 304 <=> resp[1].body.result.updatedAt <= t)

\* C7: when no 304 is sent the status is 204 for no body, else 404 for a null
\* result, else 201 for a create with an id, else the error's httpCode
\* (500 without one) or 200; so a successful PUT, PATCH or DELETE gets 204.
C7_StatusSelection ==
  (Rest /\ res.statusCode # 304) =>
    /\ res.statusCode =
         IF ~Has(resp[1], "body") THEN 204
         ELSE IF Has(resp[1].body, "result") /\ resp[1].body.result = Null THEN 404
         ELSE IF Has(resp[1], "method") /\ resp[1].method = "create" /\ Has(resp[1].body, "id")
           THEN 201
         ELSE IF Has(resp[1].body, "error") THEN ErrorStatus(resp[1].body.error)
         ELSE 200
    /\ (dispatched /\ ~Failed /\ httpReq.method \in {"PUT", "PATCH", "DELETE"}) =>
         res.statusCode = 204

C7_Witness ==
  /\ Rest /\ dispatched /\ ~Failed /\ httpReq.method = "PUT" /\ res.statusCode = 204
  /\ \E d \in Elems(docs) : d.updatedAt = clock /\ clock > 1

Search == httpReq.url.search

\* key a is a prefix of key b
Prefix(a, b) == Len(a) <= Len(b) /\ SubSeq(b, 1, Len(a)) = a

\* the query string names the place `at` of body.query, or a place above it
Names(search, at) == \E i \in 1..Len(search) : Prefix(search[i].key, at)

\* a plain request: no per-call options, no query string, no conditional header
Plain ==
  /\ opts = NoOpts /\ httpReq.url.search = NoSearch
  /\ ~Has(httpReq.headers, "if-modified-since")

Stored(id) == \E d \in Elems(docs) : d._id = id

\* C8: a POST to the base path with body {fields: {k: v}} is answered 201 with
\* a Location header whose last segment is the identifier of the document
\* just created, and a later GET of that identifier, with no write in
\* between, returns a document whose field k equals v.
C8_CreateThenRead ==
  /\ (/\ Rest /\ httpReq.method = "POST" /\ httpReq.url.path = BasePath
      /\ dispatched /\ ~Failed /\ Has(req[1].body, "fields")) =>
       /\ res.statusCode = 201 /\ res.ended /\ Has(res.headers, "Location")
       /\ Last(res.headers.Location) = resp[1].body.id
       /\ Last(res.headers.Location) = IdOf(nextId - 1)
       /\ \E d \in Elems(docs) :
            /\ d._id = Last(res.headers.Location)
            /\ \A k \in DOMAIN req[1].body.fields : d[k] = req[1].body.fields[k]
  /\ (/\ Rest /\ Plain /\ httpReq.method = "GET" /\ created # <<>>
      /\ httpReq.url.path = BasePath \o <<created[1].id>>
      /\ dispatched /\ ~Failed) =>
       /\ res.statusCode = 200 /\ Len(res.written) = 1
       /\ \A k \in DOMAIN created[1].fields :
            res.written[1].result[k] = created[1].fields[k]

C8_Witness ==
  /\ Rest /\ Plain /\ httpReq.method = "GET" /\ created # <<>>
  /\ httpReq.url.path = BasePath \o <<created[1].id>>
  /\ res.statusCode = 200 /\ Len(res.written) = 1
  /\ res.written[1].result.f = created[1].fields.f
  /\ Len(docs) > 1

\* C9: a GET /<id> whose identifier matches no stored document is no error:
\* the dispatcher returns {result: null}, the answer is 404 with no body
\* written, and the store is left as it was.  (The identifier looked up is the
\* path's: the query string does not name query._id.)
C9_MissingIsNotFound ==
  [][(/\ handler' = "rest" /\ httpReq'.method = "GET" /\ Len(httpReq'.url.path) = 2
      /\ ~Names(httpReq'.url.search, <<"query", "_id">>)
      /\ ~Stored(httpReq'.url.path[2])
      /\ dispatched' /\ fault' = NoFault) =>
       /\ resp'[1].body = [result |-> Null]
       /\ res'.statusCode = 404 /\ res'.written = <<>> /\ res'.ended /\ ~raised'
       /\ docs' = docs /\ clock' = clock /\ nextId' = nextId]_vars

C9_Witness ==
  /\ Rest /\ httpReq.method = "GET" /\ HasPath /\ ~Stored(httpReq.url.path[2])
  /\ dispatched /\ fault = NoFault /\ docs # <<>>
  /\ res.statusCode = 404 /\ res.written = <<>>

\* C10 (as claimed): a HEAD request never gets a body, and carries X-Count:
\* the count on the base path; on /<id>, 1 when the document exists, else 0.
C10_HeadCarriesCount ==
  (Rest /\ httpReq.method = "HEAD") =>
    /\ res.written = <<>>
    /\ (Plain /\ httpReq.stream.buf = EmptyBuffer /\ dispatched /\ ~Failed) =>
         /\ Has(res.headers, "X-Count")
         /\ res.headers["X-Count"] =
              IF HasPath THEN (IF Stored(httpReq.url.path[2]) THEN 1 ELSE 0)
              ELSE Len(docs)

\* the values the response carries for header k
HeaderValues(k) == IF Has(res.headers, k) THEN {res.headers[k]} ELSE {}

\* C11 (as claimed): when the response body carries an error, the status is
\* the error's httpCode, or 500, and every header of the error is on the
\* response; of an array-valued header, every element.
C11_ErrorHeadersReplayed ==
  (Rest /\ Failed) =>
    /\ res.statusCode = ErrorStatus(resp[1].body.error)
    /\ Has(resp[1].body.error, "headers") =>
         \A k \in DOMAIN resp[1].body.error.headers :
           Elems(resp[1].body.error.headers[k].items) \subseteq HeaderValues(k)

Built == Rest /\ req # <<>>

MinimalProjection == [_id |-> 1, updatedAt |-> 1]

\* C12 (as claimed): a request with a path remainder targetId is built with
\* body.query.query._id = targetId, and a HEAD one as findOne with the
\* projection {_id: 1, updatedAt: 1}; without a remainder HEAD stays count.
C12_PathSetsId ==
  /\ (Built /\ HasPath) =>
       /\ Get(req[1].body, <<"query", "query", "_id">>) = <<httpReq.url.path[2]>>
       /\ httpReq.method = "HEAD" =>
            /\ req[1].method = "findOne"
            /\ Get(req[1].body, <<"query", "project">>) = <<MinimalProjection>>
  /\ (Built /\ ~HasPath /\ httpReq.method = "HEAD") => req[1].method = "count"

\* C12 (amended): the same, as long as the query string does not itself name
\* query.query._id (or query.project); a query-string key query._id replaces
\* the identifier taken from the path.  Without a remainder and without a
\* body or query string the request body stays empty.
C12_PathSetsIdUnlessOverridden ==
  /\ (Built /\ HasPath) =>
       /\ ~Names(Search, <<"query", "_id">>) =>
            Get(req[1].body, <<"query", "query", "_id">>) = <<httpReq.url.path[2]>>
       /\ httpReq.method = "HEAD" =>
            /\ req[1].method = "findOne"
            /\ ~Names(Search, <<"project">>) =>
                 Get(req[1].body, <<"query", "project">>) = <<MinimalProjection>>
       /\ \A i \in 1..Len(Search) :
            Search[i].key = <<"query", "_id">> =>
              Get(req[1].body, <<"query", "query", "_id">>) = <<ParseValue(Search[i].raw)>>
  /\ (Built /\ ~HasPath) =>
       /\ httpReq.method = "HEAD" => req[1].method = "count"
       /\ (httpReq.stream.buf = EmptyBuffer /\ httpReq.body = <<>> /\ Search = NoSearch) =>
            req[1].body = EmptyObj

C12_Witness ==
  /\ Built /\ HasPath /\ httpReq.method = "HEAD" /\ Search # NoSearch
  /\ req[1].method = "findOne" /\ req[1].body.query.project = MinimalProjection
  /\ req[1].body.query.query._id = httpReq.url.path[2]
  /\ dispatched /\ res.statusCode = 200 /\ res.headers["X-Count"] = 1

\* the body buffer the request came with, if it is read and is not empty
Payload ==
  LET given == IF httpReq.body # <<>> THEN httpReq.body
               ELSE IF OptHas(InForce, "skipParseBody") /\ InForce[1].skipParseBody THEN <<>>
               ELSE <<httpReq.stream.buf>>
  IN IF given # <<>> /\ given[1].length > 0 THEN given ELSE <<>>

\* the first part of some query-string key is j
Touches(search, j) == \E i \in 1..Len(search) : search[i].key[1] = j

\* what the path alone puts in body.query
PathQuery ==
  IF httpReq.method = "HEAD"
    THEN [query |-> [_id |-> httpReq.url.path[2]], project |-> MinimalProjection]
    ELSE [query |-> [_id |-> httpReq.url.path[2]]]

\* C13: a non-empty body is deserialized and merged under the path's fields:
\* its top-level keys other than query are in the operation request
\* unchanged; query is the body's on the base path and the path's, as a
\* whole, when there is a path remainder (in both cases up to the keys the
\* query string then sets in it); a zero-length body contributes nothing.
C13_BodyMergedUnderPath ==
  Built =>
    /\ Payload # <<>> =>
         /\ \A k \in (DOMAIN Payload[1].obj) \ {"query"} :
              Get(req[1].body, <<k>>) = <<Payload[1].obj[k]>>
         /\ (~HasPath /\ Has(Payload[1].obj, "query")) =>
              /\ \A j \in DOMAIN Payload[1].obj.query :
                   ~Touches(Search, j) =>
                     Get(req[1].body, <<"query", j>>) = <<Payload[1].obj.query[j]>>
              /\ Search = NoSearch => req[1].body.query = Payload[1].obj.query
         /\ DOMAIN req[1].body \subseteq (DOMAIN Payload[1].obj) \cup {"query"}
    /\ HasPath =>
         /\ \A j \in DOMAIN PathQuery :
              ~Touches(Search, j) => Get(req[1].body, <<"query", j>>) = <<PathQuery[j]>>
         /\ \A j \in DOMAIN req[1].body.query : j \in DOMAIN PathQuery \/ Touches(Search, j)
    /\ Payload = <<>> =>
         /\ DOMAIN req[1].body \subseteq {"query"}
         /\ (~HasPath /\ Search = NoSearch) => req[1].body = EmptyObj

C13_Witness ==
  /\ Built /\ HasPath /\ httpReq.method = "PUT" /\ Payload = <<Buffer(UpsertBody)>>
  /\ req[1].body.fields = UpsertBody.fields /\ req[1].body.upsert
  /\ req[1].body.query = [query |-> [_id |-> httpReq.url.path[2]]]
  /\ dispatched

\* a query-string value as the spec has it: numbers and booleans are coerced
Coerced(raw) ==
  IF raw \in {"true", "false"} THEN raw = "true"
  ELSE IF raw \in {"0", "1", "2", "3"} THEN CHOOSE n \in 0..3 : ToString(n) = raw
  ELSE IF raw = "-1" THEN 0 - 1
  ELSE raw

\* C14: every key k of the query string is body.query.k in the operation
\* request, numbers and booleans coerced, also when the request body has a
\* value of its own at body.query.k.
C14_QueryStringMerged ==
  Built =>
    \A i \in 1..Len(Search) :
      Get(req[1].body, <<"query">> \o Search[i].key) = <<Coerced(Search[i].raw)>>

C14_Witness ==
  /\ Built /\ ~HasPath /\ httpReq.method = "GET" /\ Payload = <<Buffer(PagedBody)>>
  /\ Search = <<[key |-> <<"limit">>, raw |-> "1"]>>
  /\ req[1].body.query = [limit |-> 1, query |-> [f |-> "v2"]]
  /\ req[1].body.fields = PagedBody.fields
  /\ dispatched /\ Len(docs) = 2 /\ Len(res.written) = 1

\* the errors that reach wrapError: what the store raises, what building a
\* request throws, and what wrapError has returned
RaisedErrors ==
  {e[1] : e \in Faults} \cup
  {InvalidHTTPMethodError("OPTIONS"), HTTPMethodNotAllowedError("create", ReadOnly),
   [message |-> <<"request aborted">>], [message |-> <<"deserialize">>], PatchError}

Errors == RaisedErrors \cup {wrapError(e) : e \in RaisedErrors}

Tagged(e) == Has(e, "isModelInterfaceError")

\* C15: wrapError is idempotent and returns a tagged error unchanged; so the
\* error in a response, having crossed the store boundary, the dispatcher
\* and the REST adapter, is wrapped exactly once: it is tagged, wrapping it
\* again changes nothing, and its innerError, if any, is a plain error.
C15_WrappedExactlyOnce ==
  /\ \A e \in Errors :
       /\ wrapError(wrapError(e)) = wrapError(e)
       /\ Tagged(e) => wrapError(e) = e
       /\ Tagged(wrapError(e))
  /\ (handler \in {"rest", "simple"} /\ Failed) =>
       /\ Tagged(resp[1].body.error)
       /\ wrapError(resp[1].body.error) = resp[1].body.error
       /\ Has(resp[1].body.error, "innerError") => ~Tagged(resp[1].body.error.innerError)
       /\ (fault # NoFault /\ dispatched) => WrappedFormOf(resp[1].body.error, fault[1])

C15_Witness ==
  /\ Rest /\ dispatched /\ Failed /\ fault # NoFault /\ ~Tagged(fault[1])
  /\ resp[1].body.error.innerError = fault[1]
  /\ res.statusCode = 500 /\ res.ended

\* the Query of the last operation request, as an optional value
LastQuery == Field(req[1].body, "query")

\* the places in the collection of the documents matching the Query
MatchingAt(q) == {i \in 1..Len(docs) : Matches(docs[i], FilterOf(q))}

\* docs[i] comes before docs[j] in the order the Query asks for; documents
\* that sort alike, or an absent sort, keep the store's order
Precedes(i, j, q) ==
  IF q = <<>> \/ ~Has(q[1], "sort") \/ DOMAIN q[1].sort = {} THEN i < j
  ELSE \/ Before(docs[i], docs[j], q[1].sort)
       \/ ~Before(docs[j], docs[i], q[1].sort) /\ i < j

\* the place in the collection of the p-th matching document in that order
Nth(p, q) ==
  CHOOSE i \in MatchingAt(q) :
    Cardinality({j \in MatchingAt(q) : Precedes(j, i, q)}) = p - 1

SkipOf(q) == IF q # <<>> /\ Has(q[1], "skip") THEN q[1].skip ELSE 0

\* how many documents the Query returns
Returned(q) ==
  LET left == IF Cardinality(MatchingAt(q)) > SkipOf(q)
                THEN Cardinality(MatchingAt(q)) - SkipOf(q) ELSE 0
  IN IF q # <<>> /\ Has(q[1], "limit") /\ q[1].limit < left THEN q[1].limit ELSE left

Unprojected == LastQuery = <<>> \/ ~Has(LastQuery[1], "project")

Answered(m) ==
  /\ handler \in {"rest", "simple"} /\ dispatched /\ ~Failed /\ req[1].method = m

\* C16: find(q) returns exactly the documents matching q.query, in the order
\* of q.sort, from position skip on and at most limit of them; findOne(q)
\* returns the first of these, or null.
C16_FindSortedSkippedLimited ==
  /\ (Answered("find") /\ Unprojected) =>
       /\ Len(resp[1].body.results) = Returned(LastQuery)
       /\ \A p \in 1..Len(resp[1].body.results) :
            resp[1].body.results[p] = docs[Nth(SkipOf(LastQuery) + p, LastQuery)]
  /\ (Answered("findOne") /\ Unprojected) =>
       resp[1].body.result =
         IF Returned(LastQuery) = 0 THEN Null ELSE docs[Nth(SkipOf(LastQuery) + 1, LastQuery)]

C16_Witness ==
  /\ Answered("find") /\ handler = "simple" /\ Len(docs) = 3
  /\ LastQuery = <<[sort |-> [_id |-> 0 - 1], query |-> EmptyObj, skip |-> 1, limit |-> 2]>>
  /\ resp[1].body.results = <<docs[2], docs[1]>>

\* the step is a successful call of operation m, through either entry point
Ran(m) ==
  /\ handler' \in {"rest", "simple"} /\ dispatched' /\ fault' = NoFault
  /\ req'[1].method = m

Upserting(body) == Has(body, "upsert") /\ body.upsert

\* C17: update(q, {f: v}, false) leaves every document that matched q with
\* f = v and its other fields, leaves every other document as it was, and
\* leaves the number of documents as it was, also when nothing matches.
C17_UpdateFrame ==
  [][(Ran("update") /\ Has(req'[1].body, "fields") /\ ~Upserting(req'[1].body)) =>
       /\ Len(docs') = Len(docs)
       /\ \A i \in 1..Len(docs) :
            IF Matches(docs[i], FilterOf(Field(req'[1].body, "query")))
              THEN /\ \A k \in DOMAIN req'[1].body.fields :
                        Get(docs'[i], <<k>>) = <<req'[1].body.fields[k]>>
                   /\ \A k \in (DOMAIN docs[i]) \ (DOMAIN req'[1].body.fields \cup {"updatedAt"}) :
                        Get(docs'[i], <<k>>) = <<docs[i][k]>>
              ELSE docs'[i] = docs[i]]_vars

C17_Witness ==
  /\ Answered("update") /\ handler = "simple"
  /\ req[1].body = Spread(QueryBody, FieldsBody("v2"))
  /\ Len(docs) = 3 /\ docs[1].f = "v2" /\ docs[3].f = "v2" /\ ~Has(docs[2], "f")
  /\ docs[1].updatedAt = clock /\ docs[2].updatedAt < clock

\* the fields do not overwrite a constraint of the filter
Compatible(filter, delta) ==
  \A k \in (DOMAIN filter) \cap (DOMAIN delta) : delta[k] = filter[k]

\* doc is delta merged with the filter's equality constraints, with an
\* identifier no document of the collection has
Seeded(doc, filter, delta, before) ==
  /\ \A k \in DOMAIN delta : Get(doc, <<k>>) = <<delta[k]>>
  /\ \A k \in (DOMAIN filter) \ (DOMAIN delta) : Get(doc, <<k>>) = <<filter[k]>>
  /\ DOMAIN doc \subseteq (DOMAIN filter) \cup (DOMAIN delta) \cup {"_id", "updatedAt"}
  /\ Has(doc, "_id") /\ \A i \in 1..Len(before) : before[i]._id # doc._id
  /\ Compatible(filter, delta) => Matches(doc, filter)

RECURSIVE Patched(_, _, _)
Patched(doc, patches, n) ==
  IF n = 0 THEN <<doc>>
  ELSE LET prior == Patched(doc, patches, n - 1)
       IN IF prior = <<>> \/ ApplyPatchOp(prior[1], patches[n]).failed THEN <<>>
          ELSE <<ApplyPatchOp(prior[1], patches[n]).doc>>

\* the matched documents the sequence cannot be applied to
Unpatchable(before, filter, patches) ==
  {i \in 1..Len(before) :
     Matches(before[i], filter) /\ Patched(before[i], patches, Len(patches)) = <<>>}

\* no matched document before position i fails
Committed(i, before, filter, patches) ==
  \A j \in Unpatchable(before, filter, patches) : i < j

\* C19: patch(q, patches) applies the operations in sequence order to each
\* document matching q and saves it; when the sequence cannot be applied to a
\* matched document, the documents patched before it keep their patched
\* state, the failing document keeps its state from before the call, and the
\* response carries the Patch error; no other document changes.
C19_PatchPerDocument ==
  [][(Ran("patch") /\ Has(req'[1].body, "patches")) =>
       LET filter == FilterOf(Field(req'[1].body, "query"))
           patches == req'[1].body.patches
       IN /\ Len(docs') = Len(docs)
          /\ \A i \in 1..Len(docs) :
               IF ~Matches(docs[i], filter) \/ i \in Unpatchable(docs, filter, patches)
                 THEN docs'[i] = docs[i]
                 ELSE Committed(i, docs, filter, patches) =>
                        docs'[i] = SetKey(Patched(docs[i], patches, Len(patches))[1],
                                          "updatedAt", clock')
          /\ IF Unpatchable(docs, filter, patches) = {}
               THEN ~Failed'
               ELSE Failed' /\ WrappedFormOf(resp'[1].body.error, PatchError)]_vars

C19_Witness ==
  /\ handler \in {"rest", "simple"} /\ dispatched /\ req[1].method = "patch"
  /\ Failed /\ WrappedFormOf(resp[1].body.error, PatchError)
  /\ Len(docs) = 3 /\ docs[1].f = "v2" /\ docs[1].updatedAt = clock
  /\ ~Has(docs[2], "f") /\ docs[2].updatedAt < clock
  /\ docs[3] = Document(3, "v1", 1)

\* the response body the operation m has for the payload of body, on the
\* collection before; none for the operations that return nothing
ResponseBody(m, body, before, after) ==
  CASE m = "find" -> <<[results |-> find(before, Get(body, <<"query">>))]>>
    [] m = "findOne" -> <<[result |-> findOne(before, Get(body, <<"query">>))]>>
    [] m = "findById" -> <<[result |-> findById(before, Get(body, <<"id">>))]>>
    [] m = "count" -> <<[count |-> count(before, Get(body, <<"query">>))]>>
    [] m = "create" -> <<[id |-> after[Len(after)]._id]>>
    [] OTHER -> <<>>

\* the collection the operation m leaves for the payload of body
Effect(m, body, before, id, now) ==
  CASE m = "create" -> Append(before, create(Get(body, <<"fields">>), id, now))
    [] m = "update" -> update(before, Get(body, <<"query">>), Get(body, <<"fields">>),
                              Upserting(body), id, now)
    [] m = "patch" -> patch(before, FilterOf(Get(body, <<"query">>)),
                            IF Has(body, "patches") THEN body.patches ELSE <<>>, now).docs
    [] m = "delete" -> delete(before, Get(body, <<"query">>))
    [] OTHER -> before

\* C20: the dispatcher's execute routes by request.method to the store call
\* of the same name with exactly the payload fields of request.body, and
\* returns {method: request.method, body} where body is {results} for find,
\* {result} for findOne and findById, {count} for count and {id} for create.
C20_ExecuteRoutes ==
  [][(handler' \in {"rest", "simple"} /\ dispatched' /\ fault' = NoFault /\ ~Failed') =>
       /\ resp'[1].method = req'[1].method
       /\ req'[1].method \in ModelInterfaceRequestMethods
       /\ docs' = Effect(req'[1].method, req'[1].body, docs, FreshId(docs, nextId), clock + 1)
       /\ Get(resp'[1], <<"body">>) = ResponseBody(req'[1].method, req'[1].body, docs, docs')]_vars

C20_Witness ==
  /\ Answered("find") /\ handler = "simple"
  /\ req[1].body = QueryBody
  /\ Len(docs) = 3
  /\ resp[1] = [method |-> "find", body |-> [results |-> <<docs[1], docs[3]>>]]

\* the prefix given to the constructor, the empty string when none was
GivenPrefix == IF rpcInterface[1].methodPrefix = <<>> THEN <<>> ELSE rpcInterface[1].methodPrefix[1]

\* the name of the model the RPC interface was constructed over
GivenModel == rpcInterface[1].modelInterface.modelInterface.name

\* C21: once the RPC adapter is constructed with prefix p over the Simple
\* Interface of model M, the registry has, for every operation k of the Simple
\* Interface other than execute, the key p + M + ':' + k bound to k, it has no
\* key for execute, and rpcInterfaceMethodPrefix is p + M + ':' (p empty when
\* no prefix was given).
C21_RegistryOfOperations ==
  rpcInterface # <<>> =>
    /\ \A k \in ModelInterfaceRequestMethods :
         /\ (GivenPrefix \o GivenModel \o <<":", k>>) \in DOMAIN rpcServer.methods
         /\ rpcServer.methods[GivenPrefix \o GivenModel \o <<":", k>>] = k
    /\ \A key \in DOMAIN rpcServer.methods :
         key[Len(key)] # "execute" /\ rpcServer.methods[key] # "execute"
    /\ rpcInterfaceMethodPrefix(rpcInterface[1].modelInterface, rpcInterface[1].methodPrefix)
         = GivenPrefix \o GivenModel \o <<":">>

C21_Witness ==
  /\ rpcInterface # <<>> /\ rpcInterface[1].methodPrefix = <<>>
  /\ handler = "rpc" /\ rpc[1].key = <<"Baz", ":", "count">> /\ rpc[1].returned = <<3>>

\* the last exchange went through a protocol adapter
Adapted == handler \in {"rest", "legacy", "rpc"}

\* C22 (as claimed): an adapter, REST or RPC, invokes nothing but the
\* dispatcher's execute: no other operation of the Simple Interface and no
\* method of the Data Interface.
C22_OnlyThroughExecute ==
  Adapted => \A i \in 1..Len(invoked) : invoked[i] = OnSimple("execute")

\* C22 (amended): the REST adapter reaches the store only through the
\* dispatcher's execute, and besides it invokes only the Data Interface's
\* wrapError, for a request it could not build, which touches no document;
\* the RPC adapter never invokes execute: a call of the method p + M + ':' + k
\* invokes the operation k of the Simple Interface, and no method of the Data
\* Interface.
C22_RestThroughExecuteRpcDirect ==
  [][/\ handler' \in {"rest", "legacy"} =>
          \/ invoked' = <<OnSimple("execute")>> /\ dispatched'
          \/ /\ invoked' \in {<<>>, <<OnData("wrapError")>>}
             /\ ~dispatched' /\ docs' = docs /\ clock' = clock
     /\ handler' = "rpc" =>
          /\ invoked' = <<OnSimple(rpc'[1].key[Len(rpc'[1].key)])>>
          /\ rpc'[1].key[Len(rpc'[1].key)] \in ModelInterfaceRequestMethods]_vars

C22_Witness ==
  /\ handler = "rpc" /\ invoked = <<OnSimple("update")>>
  /\ rpc[1].key = TestPrefix \o ModelName \o <<":", "update">>
  /\ rpc[1].thrown = <<>> /\ clock = 2 /\ Len(docs) = 1

\* the GET on the base path that carries the arguments of a find in its body
FindRequest(args) ==
  IncomingMessage("GET", BasePath, NoSearch, NoHeaders, <<>>,
                  IF args = <<>> THEN EmptyBuffer ELSE Buffer([query |-> args[1]]), FALSE)

\* the RPC method "<prefix><model>:find"
FindKey ==
  rpcInterfaceMethodPrefix(rpcInterface[1].modelInterface, rpcInterface[1].methodPrefix)
    \o <<"find">>

\* C23: on the same store and for the same Query, the RPC method
\* "<prefix><model>:find" returns the documents, in the order, that the REST
\* find (GET on the base path) returns in body.results: an RPC find returns
\* what the GET carrying its Query answers, and an answered GET on the base
\* path answers what the RPC find returns for the Query the request built.
C23_RpcFindIsRestFind ==
  [][/\ (handler' = "rpc" /\ rpc'[1].key = FindKey /\ fault' = NoFault) =>
          /\ rpc'[1].thrown = <<>>
          /\ RESTExecute(store, FindRequest(rpc'[1].args), NoOpts, parseOptions, NoFault).resp
               = <<[method |-> "find", body |-> [results |-> rpc'[1].returned[1]]]>>
          /\ RESTExecute(store, FindRequest(rpc'[1].args), NoOpts, parseOptions, NoFault).res.written
               = <<[results |-> rpc'[1].returned[1]]>>
     /\ (/\ handler' = "rest" /\ httpReq'.method = "GET" /\ Len(httpReq'.url.path) = 1
         /\ dispatched' /\ fault' = NoFault) =>
          /\ req'[1].method = "find"
          /\ RPCInvoke(store, rpcServer, FindKey, Get(req'[1].body, <<"query">>), NoFault).thrown
               = <<>>
          /\ res'.written =
               <<[results |-> RPCInvoke(store, rpcServer, FindKey,
                                        Get(req'[1].body, <<"query">>), NoFault).returned[1]]>>]_vars

C23_Witness ==
  /\ handler = "rpc" /\ rpc[1].key = FindKey
  /\ rpc[1].args = <<[sort |-> [_id |-> -1], query |-> EmptyObj, skip |-> 0, limit |-> 2]>>
  /\ Len(docs) = 3
  /\ rpc[1].returned = <<(<<docs[3], docs[2]>>)>>

\* the last request was a HEAD for the stored document d, with no per-call
\* options and no query string, and the store answered it
HeadOf(d) ==
  /\ Rest /\ httpReq.method = "HEAD" /\ httpReq.url.path = <<"/", d._id>>
  /\ opts = NoOpts /\ httpReq.url.search = NoSearch
  /\ dispatched /\ fault = NoFault

\* C24: a HEAD /<id> for a stored document is answered 304, with no body,
\* when its If-Modified-Since time is at or before the document's updatedAt;
\* without an If-Modified-Since header it is answered 200 with Last-Modified
\* the document's updatedAt in ISO form.
C24_HeadConditional ==
  \A d \in Elems(docs) :
    HeadOf(d) =>
      /\ \A t \in Times :
           (Since(t) /\ t <= d.updatedAt) =>
             res.statusCode = 304 /\ res.ended /\ res.written = <<>>
      /\ ~Has(httpReq.headers, "if-modified-since") =>
           /\ res.statusCode = 200 /\ res.ended
           /\ Get(res.headers, <<"Last-Modified">>) = <<toISOString([nan |-> FALSE, ms |-> d.updatedAt])>>

C24_Witness ==
  \E d \in Elems(docs) :
    /\ HeadOf(d) /\ Since(1) /\ d.updatedAt = 2
    /\ res.statusCode = 304 /\ res.headers = EmptyObj

\* the call t has just performed its write
Wrote(t) == t <= Len(tasks) /\ tasks[t].pc = "write" /\ tasks'[t].pc = "done"

\* C25: the upsert is a query followed by a write, with nothing held in
\* between: a call whose query found no match creates a document when its
\* write is served, whatever the collection holds by then, so two calls that
\* both saw no match both create and leave two documents matching q; a call
\* waiting for its write is never kept from it.
C25_UpsertNotAtomic ==
  [][\A t \in 1..MaxTasks :
       /\ Wrote(t) =>
            IF tasks[t].matched
              THEN Len(docs') = Len(docs)
              ELSE /\ Len(docs') = Len(docs) + 1
                   /\ SubSeq(docs', 1, Len(docs)) = docs
                   /\ Matches(docs'[Len(docs')], tasks[t].q.query)
       /\ (t <= Len(tasks') /\ tasks'[t].pc = "write") =>
            upsertWrite(docs', tasks'[t], FreshId(docs', nextId'), clock' + 1) # docs']_vars

C25_Witness ==
  /\ Len(tasks) = 2 /\ tasks[1].pc = "done" /\ tasks[2].pc = "done"
  /\ tasks[1].q = tasks[2].q /\ ~tasks[1].matched /\ ~tasks[2].matched
  /\ Len(docs) = 2 /\ docs[1]._id # docs[2]._id
  /\ Matches(docs[1], tasks[1].q.query) /\ Matches(docs[2], tasks[1].q.query)

\* C26: handling a request writes no state of the handler, so of the
\* exchanges in progress at once, each one ends with the operation request
\* and the response (status, headers, body) that execute gives on its own for
\* the same request, against the store as it was when the exchange reached it.
C26_ExchangesIndependent ==
  [][/\ parseOptions' = parseOptions
     /\ \A i \in 1..Len(exchanges') :
          exchanges'[i].pc = "done" =>
            /\ exchanges'[i].req =
                 RESTExecute(exchanges'[i].seen, exchanges'[i].call.httpReq,
                             exchanges'[i].call.opts, parseOptions,
                             exchanges'[i].call.fault).req
            /\ exchanges'[i].res =
                 RESTExecute(exchanges'[i].seen, exchanges'[i].call.httpReq,
                             exchanges'[i].call.opts, parseOptions,
                             exchanges'[i].call.fault).res]_vars

C26_Witness ==
  /\ Len(exchanges) = 2 /\ exchanges[1].pc = "done" /\ exchanges[2].pc = "done"
  /\ exchanges[1].call.httpReq.method = "POST"
  /\ exchanges[2].call.httpReq.method = "GET" /\ exchanges[2].call.httpReq.url.path = BasePath
  /\ exchanges[1].res.statusCode = 201 /\ exchanges[2].res.statusCode = 200
  /\ exchanges[2].seen.docs = exchanges[1].seen.docs
  /\ Len(exchanges[2].seen.docs) < Len(docs)

\* C27 (as claimed): under an allowedMethods restriction every operation
\* request handed to the dispatcher has a method that is in allowedMethods,
\* HEAD /<id>, which runs findOne, included.
C27_DispatchedIsAllowed ==
  (Rest /\ Restricted /\ dispatched) => Includes(InForce[1].allowedMethods, req[1].method)

\* C28 (as claimed): a request with a path remainder targetId is built with
\* body.query.query._id = targetId, whatever its body and its query string
\* contain.
C28_PathIdAlwaysKept ==
  (Built /\ HasPath) =>
    Get(req[1].body, <<"query", "query", "_id">>) = <<httpReq.url.path[2]>>

\* C28 (amended): whatever the request body contains, its key query included,
\* the request is built with body.query.query._id = targetId, and without a
\* query string the filter is that constraint alone; only a query-string key
\* query._id (or query) replaces the identifier, with its own value.
C28_PathIdKeptOverBody ==
  (Built /\ HasPath) =>
    /\ ~Names(Search, <<"query", "_id">>) =>
         Get(req[1].body, <<"query", "query", "_id">>) = <<httpReq.url.path[2]>>
    /\ Search = NoSearch =>
         Get(req[1].body, <<"query", "query">>) = <<[_id |-> httpReq.url.path[2]]>>
    /\ (Search # NoSearch /\ Search[Len(Search)].key = <<"query", "_id">>) =>
         Get(req[1].body, <<"query", "query", "_id">>) = <<ParseValue(Search[Len(Search)].raw)>>

\* an update by path whose body names a query of its own: the path's
\* identifier is the whole filter, and the document of the path is updated
C28_Witness ==
  /\ Built /\ HasPath /\ httpReq.method = "PUT" /\ Search = NoSearch
  /\ Payload # <<>> /\ Payload[1].decodes /\ Has(Payload[1].obj, "query")
  /\ Get(Payload[1].obj, <<"query", "query", "_id">>) # <<httpReq.url.path[2]>>
  /\ req[1].body.query.query = [_id |-> httpReq.url.path[2]]
  /\ dispatched /\ res.statusCode = 204
  /\ \E i \in 1..Len(docs) : docs[i]._id = httpReq.url.path[2] /\ docs[i].updatedAt = clock

\* C29 (as claimed): the parser options given to the constructor apply to
\* every call, a per-call opts overriding only the fields it sets: a
\* constructor-level allowedMethods is enforced when the per-call opts name
\* none, and without per-call opts a constructor-level lastModifiedField is
\* the field the Last-Modified decision reads.
C29_ConstructorOptionsApply ==
  /\ (/\ Rest /\ dispatched /\ httpReq.method \in HTTPMethods
      /\ opts # NoOpts /\ ~OptHas(opts, "allowedMethods")
      /\ OptHas(parseOptions, "allowedMethods")) =>
       Includes(parseOptions[1].allowedMethods, VerbOperation(httpReq.method, HasPath))
  /\ (/\ Rest /\ opts = NoOpts /\ resp # <<>>
      /\ OptHas(parseOptions, "lastModifiedField")
      /\ ~Dated(resp[1], parseOptions[1].lastModifiedField)) =>
       ~Has(res.headers, "Last-Modified")

\* C30 (as claimed): for a request handled by the connect middleware the
\* callback is called once at most, and exactly once when the chain has
\* settled: with null after execute has completed, or with the error; never
\* with both, also when the callback itself throws.
C30_CallbackOnce ==
  middleware # <<>> =>
    /\ Len(middleware[1].called) <= 1
    /\ middleware[1].pc = "settled" => Len(middleware[1].called) = 1

====
